---- MODULE Spec2Model ----
(***************************************************************************)
(* Workspace factory: the toolbox model (an ordered list of ListElement    *)
(* objects with a selected element, wfactory_model.js), the earlier        *)
(* map-based model (xmlMap / idMap / categoryList) and the controller that *)
(* drives it (addCategory, removeCategory, switchCategory, changeName,     *)
(* moveCategory), over one shared editing surface (toolboxWorkspace).      *)
(*                                                                         *)
(* Spec       : the operations of the list-based FactoryModel.             *)
(* SpecMap    : the controller over the map-based FactoryModel: the        *)
(*              handlers that switch categories, and the user's edits.     *)
(* SpecSwitch : add-category, edit and switch only.                        *)
(* SpecRename : add-category, switch and changeName only.                  *)
(***************************************************************************)
EXTENDS Integers, Sequences, FiniteSets, TLC

\* ------------------------------------------------------------------ bounds
\* Number of ids Blockly.genUid may issue in one behaviour.
MaxUid == 4
\* Number of ids issued up to which an element may still be copied (a copy
\* draws two ids).
MaxCopyUid == 5
\* Largest number of entries the toolbox list / category list may hold.
MaxLen == 3
\* Largest number of blocks on the editing surface.
MaxBlocks == 1

\* ------------------------------------------------------------- JS values
\* JS null in a string-valued field (name, color, custom, prompt result).
Null == "null"
\* JS null in a reference- or id-valued field.
NullRef == 0
\* JS undefined in an id-valued field (the value of a missing map entry).
Undefined == -1

\* Truthiness of a prompt result or optional name: null and "" are falsy.
Truthy(s) == s /= Null /\ s /= ""

\* Category names a user may type.
Names == {"Logic", "Loops"}

\* List element types.
TYPE_CATEGORY == "category"
TYPE_SEPARATOR == "separator"
TYPE_FLYOUT == "flyout"

\* Blockly.Xml.textToDom('<xml></xml>'): a document without block nodes.
EmptyXml == << >>

\* ------------------------------------------------------ sequence helpers
Range(s) == {s[i] : i \in 1..Len(s)}

\* Array.prototype.splice(index, 1) for an in-bounds 0-based index.
SpliceOut(s, index) == [i \in 1..(Len(s) - 1) |-> IF i <= index THEN s[i] ELSE s[i + 1]]

\* Array.prototype.splice(index, 0, e) for a 0-based index in 0..length
\* (an index past the end inserts at the end).
SpliceIn(s, index, e) ==
  LET at == IF index > Len(s) THEN Len(s) ELSE index
  IN [i \in 1..(Len(s) + 1) |-> IF i <= at THEN s[i] ELSE IF i = at + 1 THEN e ELSE s[i - 1]]

\* ---------------------------------------------------------------- state
VARIABLES
  \* --- list-based FactoryModel (wfactory_model.js) ---
  heap,                  \* the live ListElement objects, by address (an object's
                         \* address is the ordinal of the id its constructor drew)
  toolboxList,           \* this.toolboxList: sequence of addresses
  flyout,                \* this.flyout: address or NullRef
  selected,              \* this.selected: address or NullRef
  hasVariableCategory,   \* this.hasVariableCategory
  hasProcedureCategory,  \* this.hasProcedureCategory
  \* --- map-based FactoryModel (part_002 / part_003) ---
  xmlMap,                \* this.xmlMap: id -> xml
  idMap,                 \* this.idMap: name -> id, in insertion order
  categoryList,          \* this.categoryList: sequence of names
  selectedId,            \* FactoryModel.prototype.selectedId
  \* --- view (factory_view.js) ---
  tabMap,                \* this.tabMap: id -> address of a table cell
  table,                 \* rows of categoryTable: sequence of cell addresses
  cells,                 \* the cells: address -> [textContent, className]
  \* --- shared ---
  toolboxWorkspace,      \* the editing surface: sequence of blocks
  uidCount,              \* number of ids Blockly.genUid has issued
  \* --- observation (history) ---
  numAdds,               \* successful adds to toolboxList
  numRemoves,            \* successful removes from toolboxList
  lastOp,                \* the last operation, its arguments and its outcome
  lastSwitch,            \* the last switchCategory call (also inside a handler)
  leftWith,              \* id -> the blocks the surface showed when the category
                         \* was last switched away from
  \* --- FactoryGenerator and shadow blocks (app_controller.js, part_002) ---
  shadowBlocks,          \* this.shadowBlocks: sequence of block ids
  hiddenWorkspace,       \* this.hiddenWorkspace: sequence of blocks
  xmlDom,                \* the document the last generateConfigXml returned
  \* --- change events of the editing surface (app_controller.js) ---
  pending,               \* events fired and not yet delivered to the listener
  preloadXml,            \* this.preloadXml: the xml to pre-load into the workspace
  blockTypeList,         \* the array the last getAllUsedBlockTypes() returned
  previewWorkspace,      \* the preview workspace reinjectPreview replaces
  windowPreviewWorkspace,\* what the bare identifier previewWorkspace denotes
  selectedTab            \* AppController's selectedTab

listVars == <<heap, toolboxList, flyout, selected, hasVariableCategory,
              hasProcedureCategory, numAdds, numRemoves>>
mapVars == <<xmlMap, idMap, categoryList, selectedId, tabMap, table, cells,
             lastSwitch, leftWith>>
vars == <<heap, toolboxList, flyout, selected, hasVariableCategory,
          hasProcedureCategory, xmlMap, idMap, categoryList, selectedId, tabMap,
          table, cells, toolboxWorkspace, uidCount, numAdds, numRemoves, lastOp,
          lastSwitch, leftWith, shadowBlocks, hiddenWorkspace, xmlDom, pending,
          preloadXml, blockTypeList, previewWorkspace, windowPreviewWorkspace,
          selectedTab>>
preloadVars == <<preloadXml, blockTypeList>>
pageVars == <<previewWorkspace, windowPreviewWorkspace, selectedTab>>
genVars == <<shadowBlocks, hiddenWorkspace, xmlDom, pending, preloadVars, pageVars>>

\* ------------------------------------------------------------ Blockly.genUid
\* The id genUid returns when it has issued `count` ids before: a new one.
GenUid(count) == count + 1

\* ------------------------------------------------------------- ListElement
\* new ListElement(type, opt_name) with `count` ids issued before.
ListElement(type, opt_name, count) ==
  [type |-> type,
   xml |-> EmptyXml,
   name |-> IF Truthy(opt_name) THEN opt_name ELSE Null,
   id |-> GenUid(count),
   color |-> Null,
   custom |-> Null]

\* ListElement.prototype.copy with `count` ids issued before: the constructor
\* draws one id, the copy then draws its own.
copySameId(original, count) ==
  [ListElement(original.type, Null, count) EXCEPT
     !.id = original.id, !.name = original.name, !.xml = original.xml,
     !.color = original.color, !.custom = original.custom]
copy(original, count) ==
  [ListElement(original.type, Null, count) EXCEPT
     !.id = GenUid(count + 1),
     !.name = original.name,
     !.xml = original.xml,
     !.color = original.color,
     !.custom = original.custom]

\* ListElement.prototype.changeName
changeName(element, name) ==
  IF element.type /= TYPE_CATEGORY THEN element ELSE [element EXCEPT !.name = name]

\* The standard categories a user may load (copied into the list): the two
\* singleton categories carry a custom tag and have no blocks of their own,
\* the others come with blocks.
StandardCategories ==
  { [type |-> TYPE_CATEGORY, name |-> "Math", id |-> 103, color |-> "230",
     custom |-> Null, xml |-> <<[tag |-> "block", type |-> "math_number"]>>],
    [type |-> TYPE_CATEGORY, xml |-> EmptyXml, name |-> "Variables", id |-> 101,
     color |-> "330", custom |-> "VARIABLE"],
    [type |-> TYPE_CATEGORY, xml |-> EmptyXml, name |-> "Functions", id |-> 102,
     color |-> "290", custom |-> "PROCEDURE"] }

\* ------------------------------------------------ list-based FactoryModel
\* The value of a property no statement assigns, as a caller of a boolean
\* query receives it; JS true and false are "true" and "false" here.
JsUndefined == "undefined"

\* Boolean(v) for such a value.
JsTruthy(v) == v = "true"

\* The model object as a value.
This ==
  [heap |-> heap, toolboxList |-> toolboxList, flyout |-> flyout, selected |-> selected,
   hasVariableCategory |-> hasVariableCategory,
   hasProcedureCategory |-> hasProcedureCategory,
   hasFunctionCategory |-> JsUndefined]

\* A new object at the next address.
Alloc(m, addr, element) == [m EXCEPT !.heap = (addr :> element) @@ @]

\* FactoryModel.prototype.hasCategoryByName
hasCategoryByName(m, name) ==
  \E i \in 1..Len(m.toolboxList) :
    /\ m.heap[m.toolboxList[i]].type = TYPE_CATEGORY
    /\ m.heap[m.toolboxList[i]].name = name

\* FactoryModel.prototype.hasVariables
hasVariables(m) == m.hasVariableCategory

\* FactoryModel.prototype.hasProcedures: the value of this.hasFunctionCategory,
\* a property that neither the constructor nor any method assigns.
hasProcedures(m) == m.hasFunctionCategory

\* FactoryModel.prototype.addElementToList (element: an address)
addElementToListFront(m, element) ==
  [m EXCEPT !.toolboxList = <<element>> \o @, !.flyout = NullRef]
addElementToListKeepFlyout(m, element) ==
  [m EXCEPT
     !.hasVariableCategory = IF m.heap[element].custom = "VARIABLE" THEN TRUE ELSE @,
     !.hasProcedureCategory = IF m.heap[element].custom = "PROCEDURE" THEN TRUE ELSE @,
     !.toolboxList = Append(@, element)]
addElementToList(m, element) ==
  [m EXCEPT
     !.hasVariableCategory = IF m.heap[element].custom = "VARIABLE" THEN TRUE ELSE @,
     !.hasProcedureCategory = IF m.heap[element].custom = "PROCEDURE" THEN TRUE ELSE @,
     !.toolboxList = Append(@, element),
     !.flyout = NullRef]

\* FactoryModel.prototype.deleteElementFromList (index: 0-based)
deleteElementFromList(m, index) ==
  IF index < 0 \/ index >= Len(m.toolboxList)
  THEN m
  ELSE [m EXCEPT
          !.hasVariableCategory =
             IF m.heap[m.toolboxList[index + 1]].custom = "VARIABLE" THEN FALSE ELSE @,
          !.hasProcedureCategory =
             IF m.heap[m.toolboxList[index + 1]].custom = "PROCEDURE" THEN FALSE ELSE @,
          !.toolboxList = SpliceOut(@, index)]

\* FactoryModel.prototype.createDefaultSelectedIfEmpty (addr: the address of
\* the new flyout element, count: ids issued before)
createDefaultSelectedIfEmptyKeep(m, addr, count) ==
  IF Len(m.toolboxList) = 0
  THEN [Alloc(m, addr, ListElement(TYPE_FLYOUT, Null, count)) EXCEPT !.flyout = addr]
  ELSE m
createDefaultSelectedIfEmpty(m, addr, count) ==
  IF Len(m.toolboxList) = 0
  THEN [Alloc(m, addr, ListElement(TYPE_FLYOUT, Null, count)) EXCEPT
          !.flyout = addr, !.selected = addr]
  ELSE m

\* The bounds check of FactoryModel.prototype.moveElementToIndex.
moveIndexOutOfBoundsLax(m, newIndex, oldIndex) ==
  newIndex < 0 \/ newIndex > Len(m.toolboxList) \/ oldIndex < 0 \/
  oldIndex > Len(m.toolboxList)
moveIndexOutOfBounds(m, newIndex, oldIndex) ==
  newIndex < 0 \/ newIndex >= Len(m.toolboxList) \/ oldIndex < 0 \/
  oldIndex >= Len(m.toolboxList)

\* FactoryModel.prototype.moveElementToIndex when the indices are in bounds.
moveElementToIndexReselect(m, element, newIndex, oldIndex) ==
  LET d == deleteElementFromList(m, oldIndex)
  IN [d EXCEPT !.toolboxList = SpliceIn(@, newIndex, element),
               !.selected = m.toolboxList[newIndex + 1]]
moveElementToIndexAppend(m, element, newIndex, oldIndex) ==
  LET d == deleteElementFromList(m, oldIndex)
  IN [d EXCEPT !.toolboxList = Append(@, element)]
moveElementToIndex(m, element, newIndex, oldIndex) ==
  LET d == deleteElementFromList(m, oldIndex)
  IN [d EXCEPT !.toolboxList = SpliceIn(@, newIndex, element)]

\* FactoryModel.prototype.getIndexByElementId (0-based, -1 if absent)
getIndexByElementIdOrFirst(m, id) ==
  IF \E i \in 1..Len(m.toolboxList) : m.heap[m.toolboxList[i]].id = id
  THEN (CHOOSE i \in 1..Len(m.toolboxList) :
          /\ m.heap[m.toolboxList[i]].id = id
          /\ \A j \in 1..(i - 1) : m.heap[m.toolboxList[j]].id /= id) - 1
  ELSE 0
getIndexByElementId(m, id) ==
  IF \E i \in 1..Len(m.toolboxList) : m.heap[m.toolboxList[i]].id = id
  THEN (CHOOSE i \in 1..Len(m.toolboxList) :
          /\ m.heap[m.toolboxList[i]].id = id
          /\ \A j \in 1..(i - 1) : m.heap[m.toolboxList[j]].id /= id) - 1
  ELSE -1

\* FactoryModel.prototype.getElementById
getElementByIdAnyObject(m, id) ==
  IF \E a \in DOMAIN m.heap : m.heap[a].id = id
  THEN CHOOSE a \in DOMAIN m.heap : m.heap[a].id = id
  ELSE NullRef
getElementById(m, id) ==
  IF getIndexByElementId(m, id) = -1 THEN NullRef
  ELSE m.toolboxList[getIndexByElementId(m, id) + 1]

\* FactoryModel.prototype.setSelectedById
setSelectedById(m, id) == [m EXCEPT !.selected = getElementById(m, id)]

\* FactoryModel.prototype.getSelected
getSelected(m) == m.selected

\* FactoryModel.prototype.clearToolboxList
clearToolboxList(m) == [m EXCEPT !.toolboxList = << >>]

\* Objects no longer referenced by the model are collected.
Live(m) == (Range(m.toolboxList) \cup {m.flyout, m.selected}) \ {NullRef}
Become(m) ==
  /\ heap' = [a \in Live(m) |-> m.heap[a]]
  /\ toolboxList' = m.toolboxList
  /\ flyout' = m.flyout
  /\ selected' = m.selected
  /\ hasVariableCategory' = m.hasVariableCategory
  /\ hasProcedureCategory' = m.hasProcedureCategory

\* ------------------------------------------------------------------ Init
\* The preview workspace the page injects with the toolbox '<xml></xml>': it
\* has a flyout and no toolbox, and shows nothing.
NewPreviewWorkspace == [toolbox_ |-> FALSE, shown |-> << >>]

\* The page as AppController's constructor leaves it: the preview workspace
\* just injected, also the value of the identifier previewWorkspace, and the
\* Block Factory tab selected.
InitPage ==
  /\ previewWorkspace = NewPreviewWorkspace
  /\ windowPreviewWorkspace = [bound |-> TRUE, toolbox_ |-> FALSE]
  /\ selectedTab = "BLOCK_FACTORY"

\* The models after their constructors; the category table is set apart.
InitObjects ==
  /\ heap = (1 :> ListElement(TYPE_FLYOUT, Null, 0))
  /\ toolboxList = << >>
  /\ flyout = 1
  /\ selected = 1
  /\ hasVariableCategory = FALSE
  /\ hasProcedureCategory = FALSE
  /\ xmlMap = << >>
  /\ idMap = << >>
  /\ categoryList = << >>
  /\ selectedId = NullRef
  /\ tabMap = << >>
  /\ cells = << >>
  /\ leftWith = << >>
  /\ toolboxWorkspace = << >>
  /\ uidCount = 1
  /\ numAdds = 0
  /\ numRemoves = 0
  /\ lastOp = [op |-> "init", ret |-> NullRef, tag |-> "", err |-> Null]
  /\ lastSwitch = [from |-> NullRef, to |-> NullRef, stored |-> FALSE,
                    untouched |-> TRUE, loaded |-> TRUE, threw |-> FALSE, called |-> FALSE]
  /\ shadowBlocks = << >>
  /\ hiddenWorkspace = << >>
  /\ xmlDom = << >>
  /\ pending = << >>
  /\ preloadXml = EmptyXml
  /\ blockTypeList = << >>

\* The category table of the map-based view has no rows.
InitModel == InitObjects /\ table = << >>

Init == InitModel /\ InitPage

\* --------------------------------------------- actions of the list model
\* addCategoryToList(name): a new category element appended to the list;
\* returns its id.
AddCategoryToList(name) ==
  /\ uidCount < MaxUid
  /\ Len(toolboxList) < MaxLen
  /\ LET addr == uidCount + 1
         category == ListElement(TYPE_CATEGORY, name, uidCount)
         m == addElementToList(Alloc(This, addr, category), addr)
     IN /\ Become(m)
        /\ uidCount' = uidCount + 1
        /\ numAdds' = numAdds + 1
        /\ lastOp' = [op |-> "addCategory", ret |-> category.id,
                      tag |-> IF hasCategoryByName(This, name) THEN "used" ELSE "fresh",
                      err |-> Null]
  /\ UNCHANGED <<numRemoves, mapVars, toolboxWorkspace, genVars>>

\* addSeparatorToList(): a new separator element appended to the list.
AddSeparatorToList ==
  /\ uidCount < MaxUid
  /\ Len(toolboxList) < MaxLen
  /\ LET addr == uidCount + 1
         sep == ListElement(TYPE_SEPARATOR, Null, uidCount)
         m == addElementToList(Alloc(This, addr, sep), addr)
     IN /\ Become(m)
        /\ uidCount' = uidCount + 1
        /\ numAdds' = numAdds + 1
        /\ lastOp' = [op |-> "addSeparator", ret |-> sep.id, tag |-> "", err |-> Null]
  /\ UNCHANGED <<numRemoves, mapVars, toolboxWorkspace, genVars>>

\* A copy of an element of the list or of a standard category is added.
AddCopy(original) ==
  /\ uidCount + 2 <= MaxCopyUid
  /\ Len(toolboxList) < MaxLen
  /\ LET addr == uidCount + 1
         c == copy(original, uidCount)
         m == addElementToList(Alloc(This, addr, c), addr)
     IN /\ Become(m)
        /\ uidCount' = uidCount + 2
        /\ numAdds' = numAdds + 1
        /\ lastOp' = [op |-> "copy", ret |-> c.id, tag |-> "", err |-> Null]
  /\ UNCHANGED <<numRemoves, mapVars, toolboxWorkspace, genVars>>

\* deleteElementFromList(index)
DeleteElementFromList(index) ==
  /\ Become(deleteElementFromList(This, index))
  /\ numRemoves' = IF index < 0 \/ index >= Len(toolboxList) THEN numRemoves
                   ELSE numRemoves + 1
  /\ lastOp' = [op |-> "delete", ret |-> NullRef,
                tag |-> IF index < 0 \/ index >= Len(toolboxList) THEN "none"
                        ELSE IF Len(toolboxList) = 1 THEN "last" ELSE "one",
                err |-> Null]
  /\ UNCHANGED <<uidCount, numAdds, mapVars, toolboxWorkspace, genVars>>

\* createDefaultSelectedIfEmpty()
CreateDefaultSelectedIfEmpty ==
  /\ Len(toolboxList) = 0 => uidCount < MaxUid
  /\ Become(createDefaultSelectedIfEmpty(This, uidCount + 1, uidCount))
  /\ uidCount' = IF Len(toolboxList) = 0 THEN uidCount + 1 ELSE uidCount
  /\ lastOp' = [op |-> "createDefault", ret |-> NullRef,
                tag |-> IF lastOp.op = "delete" /\ lastOp.tag = "last" THEN "afterLast"
                        ELSE "",
                err |-> Null]
  /\ UNCHANGED <<numAdds, numRemoves, mapVars, toolboxWorkspace, genVars>>

\* A 0-based index of the list.
InBounds(index) == index >= 0 /\ index < Len(toolboxList)

\* What a move is, for the record of the last operation: a move with an
\* index outside the list, a move of the selected element by one position,
\* or any other move.
MoveTag(newIndex, oldIndex) ==
  IF ~(InBounds(newIndex) /\ InBounds(oldIndex)) THEN "outOfBounds"
  ELSE IF /\ toolboxList[oldIndex + 1] = selected
          /\ (newIndex = oldIndex + 1 \/ newIndex = oldIndex - 1)
       THEN "selectedByOne" ELSE ""

\* moveElementToIndex(element, newIndex, oldIndex); the caller passes the
\* element that is at oldIndex (the function's stated assumption).
MoveElementToIndex(element, newIndex, oldIndex) ==
  /\ IF moveIndexOutOfBounds(This, newIndex, oldIndex)
     THEN /\ UNCHANGED <<heap, toolboxList, flyout, selected, hasVariableCategory,
                         hasProcedureCategory>>
          /\ lastOp' = [op |-> "move", ret |-> NullRef, tag |-> MoveTag(newIndex, oldIndex),
                        err |-> "IndexOutOfBounds"]
     ELSE /\ Become(moveElementToIndex(This, element, newIndex, oldIndex))
          /\ lastOp' = [op |-> "move", ret |-> NullRef, tag |-> MoveTag(newIndex, oldIndex),
                        err |-> Null]
  /\ UNCHANGED <<uidCount, numAdds, numRemoves, mapVars, toolboxWorkspace, genVars>>

\* setSelectedById(id)
SetSelectedById(id) ==
  /\ Become(setSelectedById(This, id))
  /\ lastOp' = [op |-> "setSelected", ret |-> NullRef, tag |-> "", err |-> Null]
  /\ UNCHANGED <<uidCount, numAdds, numRemoves, mapVars, toolboxWorkspace, genVars>>

\* clearToolboxList(): every element of the list is deleted.
ClearToolboxList ==
  /\ Become(clearToolboxList(This))
  /\ numRemoves' = numRemoves + Len(toolboxList)
  /\ lastOp' = [op |-> "clear", ret |-> NullRef, tag |-> "", err |-> Null]
  /\ UNCHANGED <<uidCount, numAdds, mapVars, toolboxWorkspace, genVars>>

\* The indices a caller may pass: every valid one, and one past either end.
Indices == -1..Len(toolboxList)

\* The element a caller of moveElementToIndex passes with oldIndex: the one
\* at oldIndex (the function's stated assumption); with an index that is out
\* of bounds, the selected one.
ElementAt(oldIndex) ==
  IF oldIndex >= 0 /\ oldIndex < Len(toolboxList) THEN toolboxList[oldIndex + 1]
  ELSE selected

Next ==
  \/ \E name \in Names : AddCategoryToList(name)
  \/ AddSeparatorToList
  \/ \E a \in Range(toolboxList) : AddCopy(heap[a])
  \/ \E t \in StandardCategories : AddCopy(t)
  \/ \E index \in Indices : DeleteElementFromList(index)
  \/ CreateDefaultSelectedIfEmpty
  \/ \E newIndex \in Indices, oldIndex \in Indices :
       MoveElementToIndex(ElementAt(oldIndex), newIndex, oldIndex)
  \/ \E id \in 1..uidCount : SetSelectedById(id)
  \/ ClearToolboxList

Spec == Init /\ [][Next]_vars

\* ===================================================================
\* The map-based FactoryModel, its view and its controller
\* ===================================================================

\* Block types a user may drag onto the editing surface.
BlockTypes == {"controls_if", "math_number"}

\* The value of a missing xmlMap entry (JS undefined where xml is expected).
UndefinedXml == <<[tag |-> "undefined", type |-> ""]>>

\* id == null in JS: true of null and of undefined.
IsNullish(id) == id = NullRef \/ id = Undefined

\* a == b in JS for two ids.
LooseEq(a, b) == a = b \/ (IsNullish(a) /\ IsNullish(b))

\* Blockly.Xml.workspaceToDom(workspace): one block node per top block.
workspaceToDom(workspace) ==
  [i \in 1..Len(workspace) |-> [tag |-> "block", type |-> workspace[i]]]

\* Blockly.Xml.domToWorkspace(xml, workspace): the blocks of the nodes of xml
\* are added to the blocks already on the workspace.
domToWorkspace(xml, workspace) ==
  workspace \o [i \in 1..Len(xml) |-> xml[i].type]

\* The record of a switchCategory call while a handler calls none.
NoSwitch ==
  [from |-> NullRef, to |-> NullRef, stored |-> FALSE, untouched |-> TRUE,
   loaded |-> TRUE, threw |-> FALSE, called |-> FALSE]

\* The globals the controller works on: model, view and toolboxWorkspace;
\* `threw` tells that a statement raised an exception, which ends the handler.
Globals ==
  [xmlMap |-> xmlMap, idMap |-> idMap, categoryList |-> categoryList,
   selectedId |-> selectedId, tabMap |-> tabMap, table |-> table, cells |-> cells,
   toolboxWorkspace |-> toolboxWorkspace, threw |-> FALSE,
   lastSwitch |-> NoSwitch, leftWith |-> leftWith]

\* A statement that raises an exception.
Throw(g) == [g EXCEPT !.threw = TRUE]

\* obj[key] = value on an object whose keys are kept in insertion order.
SetKey(map, key, value) ==
  IF \E i \in 1..Len(map) : map[i].name = key
  THEN [i \in 1..Len(map) |-> IF map[i].name = key THEN [name |-> key, id |-> value] ELSE map[i]]
  ELSE Append(map, [name |-> key, id |-> value])

\* delete obj[key]
DeleteKey(map, key) == SelectSeq(map, LAMBDA e : e.name /= key)

\* delete obj[id] on an object keyed by ids
Without(f, id) == [k \in DOMAIN f \ {id} |-> f[k]]

\* 0-based index of the first element of seq satisfying Test, or -1.
FirstIndex(seq, Test(_)) ==
  IF \E i \in 1..Len(seq) : Test(seq[i])
  THEN (CHOOSE i \in 1..Len(seq) : Test(seq[i]) /\ \A j \in 1..(i - 1) : ~Test(seq[j])) - 1
  ELSE -1

\* 0-based index of the last element of seq satisfying Test, or -1.
LastIndex(seq, Test(_)) ==
  IF \E i \in 1..Len(seq) : Test(seq[i])
  THEN (CHOOSE i \in 1..Len(seq) : Test(seq[i]) /\ \A j \in (i + 1)..Len(seq) : ~Test(seq[j])) - 1
  ELSE -1

\* FactoryModel.prototype.isCategory
isCategory(g, name) == \E i \in 1..Len(g.idMap) : g.idMap[i].name = name

\* FactoryModel.prototype.getId
getId(g, name) ==
  IF isCategory(g, name)
  THEN g.idMap[CHOOSE i \in 1..Len(g.idMap) : g.idMap[i].name = name].id
  ELSE Undefined

\* FactoryModel.prototype.getNextOpenCategory
getNextOpenCategory(g, name) ==
  LET i == FirstIndex(g.categoryList, LAMBDA c : c = name)
  IN IF i = -1 THEN Undefined
     ELSE IF i /= 0 THEN getId(g, g.categoryList[i])
     ELSE IF i /= Len(g.categoryList) - 1 THEN getId(g, g.categoryList[i + 2])
     ELSE NullRef

\* FactoryModel.prototype.addCategoryEntry, `id` being what genUid returns
addCategoryEntry(g, name, id) ==
  [g EXCEPT !.xmlMap = (id :> EmptyXml) @@ g.xmlMap,
            !.idMap = SetKey(g.idMap, name, id),
            !.categoryList = Append(g.categoryList, name)]

\* FactoryModel.prototype.getSelectedId
getSelectedId(g) == g.selectedId

\* FactoryModel.prototype.setSelectedId
setSelectedId(g, id) == [g EXCEPT !.selectedId = id]

\* FactoryModel.prototype.captureState
captureStateNever(g, id) == g
captureState(g, id) ==
  IF IsNullish(id) THEN g
  ELSE [g EXCEPT !.xmlMap = (id :> workspaceToDom(g.toolboxWorkspace)) @@ g.xmlMap]

\* FactoryModel.prototype.getXmlById
getXmlById(g, id) == IF id \in DOMAIN g.xmlMap THEN g.xmlMap[id] ELSE UndefinedXml

\* FactoryModel.prototype.getXmlByName
getXmlByName(g, name) == getXmlById(g, getId(g, name))

\* FactoryModel.prototype.deleteCategoryEntry
deleteCategoryEntry(g, name) ==
  LET id == getId(g, name)
      i == FirstIndex(g.categoryList, LAMBDA c : c = name)
  IN [g EXCEPT !.xmlMap = Without(g.xmlMap, id),
               !.idMap = DeleteKey(g.idMap, name),
               !.categoryList = IF i = -1 THEN g.categoryList ELSE SpliceOut(g.categoryList, i)]

\* FactoryModel.prototype.changeCategoryName
changeCategoryName(g, newName, id) ==
  LET i == FirstIndex(g.categoryList, LAMBDA c : LooseEq(getId(g, c), id))
      list == IF i = -1 THEN g.categoryList ELSE [g.categoryList EXCEPT ![i + 1] = newName]
      set == SetKey(g.idMap, newName, id)
      k == FirstIndex(set, LAMBDA e : LooseEq(e.id, id))
  IN [g EXCEPT !.categoryList = list,
               !.idMap = SpliceOut(set, k)]

\* FactoryModel.prototype.swapCategoryId
swapCategoryIdNamesOnly(g, id1, id2, name1, name2) ==
  [g EXCEPT !.idMap = SetKey(SetKey(g.idMap, name1, id2), name2, id1)]
swapCategoryId(g, id1, id2, name1, name2) ==
  LET temp == getXmlById(g, id1)
      x1 == (id1 :> getXmlById(g, id2)) @@ g.xmlMap
      x2 == (id2 :> temp) @@ x1
  IN [g EXCEPT !.xmlMap = x2,
               !.idMap = SetKey(SetKey(g.idMap, name1, id2), name2, id1)]

\* FactoryModel.prototype.swapCategoryOrder
swapCategoryOrder(g, name1, name2) ==
  LET index1 == LastIndex(g.categoryList, LAMBDA c : c = name1)
      index2 == LastIndex(g.categoryList, LAMBDA c : c = name2)
      l1 == IF index1 = -1 THEN g.categoryList
            ELSE [g.categoryList EXCEPT ![index1 + 1] = name2]
      l2 == IF index2 = -1 THEN l1 ELSE [l1 EXCEPT ![index2 + 1] = name1]
  IN [g EXCEPT !.categoryList = l2]


\* ------------------------------------------------------------ FactoryView
\* textContent of the cell at `addr`.
TextOf(g, addr) == g.cells[addr].textContent

\* tr.rowIndex of the row holding the cell at `addr`; -1 when the row is no
\* longer in the table.
RowIndex(g, addr) == FirstIndex(g.table, LAMBDA a : a = addr)

\* FactoryView.prototype.addCategoryRow; the new cell takes as its address
\* the id of the category it is made for.
addCategoryRow(g, name) ==
  LET id == getId(g, name)
  IN [g EXCEPT !.table = Append(g.table, id),
               !.cells = (id :> [textContent |-> name, className |-> ""]) @@ g.cells,
               !.tabMap = (id :> id) @@ g.tabMap]

\* FactoryView.prototype.deleteCategoryRow
deleteCategoryRow(g, name) ==
  LET i == FirstIndex(g.table, LAMBDA a : TextOf(g, a) = name)
  IN [g EXCEPT !.tabMap = Without(g.tabMap, getId(g, name)),
               !.table = IF i = -1 THEN g.table ELSE SpliceOut(g.table, i)]

\* FactoryView.prototype.toggleTab
toggleTab(g, id, on) ==
  IF g.threw THEN g
  ELSE IF id \notin DOMAIN g.tabMap THEN Throw(g)
  ELSE [g EXCEPT !.cells[g.tabMap[id]].className = IF on THEN "tabon" ELSE "taboff"]

\* FactoryView.prototype.updateCategoryName
updateCategoryName(g, newName, id) ==
  IF id \notin DOMAIN g.tabMap THEN Throw(g)
  ELSE [g EXCEPT !.cells[g.tabMap[id]].textContent = newName]

\* FactoryView.prototype.swapCategories: the globals afterwards and the value
\* returned (names.curr, names.swap; isNull when null is returned).
swapCategories(g, currID, swapUp) ==
  IF currID \notin DOMAIN g.tabMap
  THEN [g |-> Throw(g), isNull |-> TRUE, curr |-> Null, swap |-> Null]
  ELSE
    LET currTab == g.tabMap[currID]
        currName == TextOf(g, currTab)
        currIndex == RowIndex(g, currTab)
        swapIndex == currIndex + (IF swapUp THEN -1 ELSE 1)
    IN IF swapIndex < 0 \/ swapIndex >= Len(g.table)
       THEN [g |-> g, isNull |-> TRUE, curr |-> Null, swap |-> Null]
       ELSE
         LET swapTab == g.table[swapIndex + 1]
             swapName == TextOf(g, swapTab)
             g1 == [g EXCEPT !.cells[swapTab].textContent = currName]
             g2 == [g1 EXCEPT !.cells[currTab].textContent = swapName]
         IN [g |-> toggleTab(g2, currID, FALSE), isNull |-> FALSE,
             curr |-> currName, swap |-> swapName]

\* ------------------------------------------------------ FactoryController
\* window.name, which the loop condition of changeName reads as `name`.
windowName == ""

\* The value of leftWith once a category has been removed, renamed or moved:
\* the history is kept for behaviours of add, edit and switch only.
NotKept == (Undefined :> << >>)

\* History of a call switchCategory(id) that took the globals from `before`
\* to `after`: what it was called with, whether the blocks then on the
\* surface are now stored for the category left, whether xmlMap is as it
\* was, and whether the surface now holds exactly the blocks saved for id
\* (no blocks when there is no such saved content).
Observed(before, id, after) ==
  LET from == getSelectedId(before)
      shown == before.toolboxWorkspace
  IN [after EXCEPT
        !.lastSwitch =
          [from |-> from, to |-> id,
           stored |-> /\ from \in DOMAIN after.xmlMap
                      /\ after.xmlMap[from] = workspaceToDom(shown),
           untouched |-> after.xmlMap = before.xmlMap,
           loaded |-> after.toolboxWorkspace =
                        (IF IsNullish(id) \/ getXmlById(after, id) = UndefinedXml
                         THEN << >>
                         ELSE domToWorkspace(getXmlById(after, id), << >>)),
           threw |-> after.threw, called |-> TRUE],
        !.leftWith = IF IsNullish(from) \/ before.leftWith = NotKept THEN before.leftWith
                     ELSE (from :> shown) @@ before.leftWith]

\* FactoryController.switchCategory
switchCategoryKeepBlocks(g, id) ==
  Observed(g, id,
    IF IsNullish(id)
    THEN setSelectedId(g, NullRef)
    ELSE
      LET g1 == IF ~IsNullish(getSelectedId(g))
                THEN toggleTab(captureState(g, getSelectedId(g)), getSelectedId(g), FALSE)
                ELSE g
          g2 == toggleTab(g1, id, TRUE)
          g3 == setSelectedId(g2, id)
      IN IF g2.threw THEN g2
         ELSE IF getXmlById(g3, id) = UndefinedXml THEN Throw(g3)
         ELSE [g3 EXCEPT !.toolboxWorkspace =
                           domToWorkspace(getXmlById(g3, id), g3.toolboxWorkspace)])
switchCategory(g, id) ==
  Observed(g, id,
    IF IsNullish(id)
    THEN setSelectedId([g EXCEPT !.toolboxWorkspace = << >>], NullRef)
    ELSE
      LET g1 == IF ~IsNullish(getSelectedId(g))
                THEN toggleTab(captureState(g, getSelectedId(g)), getSelectedId(g), FALSE)
                ELSE g
          g2 == toggleTab(g1, id, TRUE)
          g3 == setSelectedId(g2, id)
          g4 == [g3 EXCEPT !.toolboxWorkspace = << >>]
      IN IF g2.threw THEN g2
         ELSE IF getXmlById(g4, id) = UndefinedXml THEN Throw(g4)
         ELSE [g4 EXCEPT !.toolboxWorkspace =
                           domToWorkspace(getXmlById(g4, id), g4.toolboxWorkspace)])

\* FactoryController.addCategory, `name` being the answer that ended the
\* prompt loop and `id` what genUid returns.
addCategoryNoSwitch(g, name, id) ==
  IF ~Truthy(name) THEN g
  ELSE addCategoryRow(addCategoryEntry(g, name, id), name)
addCategoryNoCancel(g, name, id) ==
  LET g1 == addCategoryRow(addCategoryEntry(g, name, id), name)
  IN switchCategory(g1, getId(g1, name))
addCategory(g, name, id) ==
  IF ~Truthy(name) THEN g
  ELSE LET g1 == addCategoryRow(addCategoryEntry(g, name, id), name)
       IN switchCategory(g1, getId(g1, name))

\* FactoryController.removeCategory, `name` being the answer to the prompt.
removeCategory(g, name) ==
  IF ~isCategory(g, name) THEN g
  ELSE LET g1 == IF LooseEq(getId(g, name), getSelectedId(g))
                 THEN switchCategory(g, getNextOpenCategory(g, name))
                 ELSE g
       IN IF g1.threw THEN g1
          ELSE deleteCategoryRow(deleteCategoryEntry(g1, name), name)

\* FactoryController.changeName, `newName` being the answer that ended the
\* prompt loop.
controllerChangeName(g, newName) ==
  IF IsNullish(getSelectedId(g)) THEN g
  ELSE IF ~Truthy(newName) THEN g
  ELSE updateCategoryName(changeCategoryName(g, newName, getSelectedId(g)),
                          newName, getSelectedId(g))

\* FactoryController.moveCategory for the key `key`.
moveCategory(g, key) ==
  IF (key /= "ArrowUp" /\ key /= "ArrowDown") \/ IsNullish(getSelectedId(g)) THEN g
  ELSE
    LET names == swapCategories(g, getSelectedId(g), key = "ArrowUp")
        v == names.g
        currID == getSelectedId(v)
        swapID == getId(v, names.swap)
        m1 == captureState(v, currID)
        m2 == swapCategoryId(m1, currID, swapID, names.curr, names.swap)
        m3 == swapCategoryOrder(m2, names.curr, names.swap)
        m4 == setSelectedId(m3, swapID)
    IN IF v.threw \/ names.isNull THEN v
       ELSE switchCategory(m4, swapID)


\* ------------------------------------------- actions of the controller
\* What a user may answer to a prompt: a name, or Cancel.
Answers == Names \cup {Null}

\* Keys a user may press.
Keys == {"ArrowUp", "ArrowDown", "Enter"}

\* The handler `op` ended with the globals as in g.
CommitGlobals(g, op, ret, tag) ==
  /\ xmlMap' = g.xmlMap
  /\ idMap' = g.idMap
  /\ categoryList' = g.categoryList
  /\ selectedId' = g.selectedId
  /\ tabMap' = g.tabMap
  /\ table' = g.table
  /\ cells' = [a \in Range(g.table) \cup {g.tabMap[k] : k \in DOMAIN g.tabMap} |-> g.cells[a]]
  /\ toolboxWorkspace' = g.toolboxWorkspace
  /\ lastSwitch' = g.lastSwitch
  /\ lastOp' = [op |-> op, ret |-> ret, tag |-> tag,
                err |-> IF g.threw THEN "TypeError" ELSE Null]

\* The same for a handler that returns no document.
Commit(g, op, ret, tag) ==
  /\ CommitGlobals(g, op, ret, tag)
  /\ UNCHANGED genVars

\* "Add Category" button; the prompt loop ends with `name`, an answer that
\* is not the name of a category.
AddCategory(name) ==
  /\ ~isCategory(Globals, name)
  /\ Truthy(name) => uidCount < MaxUid
  /\ LET g == addCategory(Globals, name, GenUid(uidCount))
     IN /\ Commit(g, "controller.addCategory", NullRef,
                  IF Truthy(name) THEN "added" ELSE "cancelled")
        /\ leftWith' = g.leftWith
  /\ uidCount' = IF Truthy(name) THEN uidCount + 1 ELSE uidCount
  /\ UNCHANGED listVars

\* "Remove Category" button; `name` is the answer to the prompt.
RemoveCategory(name) ==
  /\ Commit(removeCategory(Globals, name), "controller.removeCategory", NullRef,
            IF ~Truthy(name) THEN "cancelled"
            ELSE IF ~isCategory(Globals, name) THEN "none"
            ELSE IF LooseEq(getId(Globals, name), selectedId) THEN "selected"
            ELSE "other")
  /\ leftWith' = NotKept
  /\ UNCHANGED <<uidCount, listVars>>

\* A click on the tab of a row of the table: its handler calls
\* switchCategory with the id the tab was made for.
SwitchCategory(id) ==
  /\ LET g == switchCategory(Globals, id)
     IN /\ Commit(g, "controller.switchCategory", id, "")
        /\ leftWith' = g.leftWith
  /\ UNCHANGED <<uidCount, listVars>>

\* "change name" button; the prompt loop ends with `newName` when window.name
\* is not the name of a category.
ChangeName(newName) ==
  /\ ~isCategory(Globals, windowName)
  /\ Commit(controllerChangeName(Globals, newName), "controller.changeName", NullRef,
            IF IsNullish(selectedId) THEN "none"
            ELSE IF ~Truthy(newName) THEN "cancelled"
            ELSE IF isCategory(Globals, newName) THEN "used" ELSE "fresh")
  /\ leftWith' = NotKept
  /\ UNCHANGED <<uidCount, listVars>>

\* A key press.
MoveCategory(key) ==
  /\ Commit(moveCategory(Globals, key), "controller.moveCategory", NullRef, key)
  /\ leftWith' = NotKept
  /\ UNCHANGED <<uidCount, listVars>>

\* The user drags a block of type `type` onto the editing surface.
AddBlock(type) ==
  /\ Len(toolboxWorkspace) < MaxBlocks
  /\ toolboxWorkspace' = Append(toolboxWorkspace, type)
  /\ lastOp' = [op |-> "edit", ret |-> NullRef, tag |-> "", err |-> Null]
  /\ lastSwitch' = NoSwitch
  /\ UNCHANGED <<xmlMap, idMap, categoryList, selectedId, tabMap, table, cells, leftWith,
                 uidCount, listVars, genVars>>

\* The user deletes the block at position i of the editing surface.
RemoveBlock(i) ==
  /\ i \in 1..Len(toolboxWorkspace)
  /\ toolboxWorkspace' = SpliceOut(toolboxWorkspace, i - 1)
  /\ lastOp' = [op |-> "edit", ret |-> NullRef, tag |-> "", err |-> Null]
  /\ lastSwitch' = NoSwitch
  /\ UNCHANGED <<xmlMap, idMap, categoryList, selectedId, tabMap, table, cells, leftWith,
                 uidCount, listVars, genVars>>

\* FactoryGenerator.generateConfigXml of the map-based revision: the globals
\* it leaves and the children of the document it returns (none when a
\* statement raised an exception). Without a selected category the blocks of
\* the surface are the document; otherwise the surface is captured and every
\* category is loaded in turn. At the end the surface is cleared and loaded
\* with the xml stored under the selected id.
generateConfigXmlMap(g) ==
  LET sel == getSelectedId(g)
      g1 == IF IsNullish(sel) THEN g ELSE captureState(g, sel)
      n == Len(g1.categoryList)
      missing == /\ ~IsNullish(sel)
                 /\ \E k \in 1..n : getXmlByName(g1, g1.categoryList[k]) = UndefinedXml
      doc == IF IsNullish(sel) THEN workspaceToDom(g.toolboxWorkspace)
             ELSE [k \in 1..n |->
                     [tag |-> "category", name |-> g1.categoryList[k],
                      kids |-> workspaceToDom(
                                 domToWorkspace(getXmlByName(g1, g1.categoryList[k]), << >>))]]
      g2 == [g1 EXCEPT !.toolboxWorkspace = << >>]
  IN IF missing \/ getXmlById(g2, sel) = UndefinedXml
     THEN [g |-> Throw(g2), xmlDom |-> << >>]
     ELSE [g |-> [g2 EXCEPT !.toolboxWorkspace =
                              domToWorkspace(getXmlById(g2, sel), g2.toolboxWorkspace)],
           xmlDom |-> doc]

\* "Update Preview" of the map-based revision: the generator runs on the
\* globals.
GenerateConfigXmlMap ==
  /\ LET r == generateConfigXmlMap(Globals)
     IN /\ CommitGlobals(r.g, "generator.generateConfigXml", NullRef,
                         IF IsNullish(selectedId) THEN "flyout" ELSE "category")
        /\ xmlDom' = r.xmlDom
        /\ leftWith' = r.g.leftWith
  /\ UNCHANGED <<uidCount, listVars, shadowBlocks, hiddenWorkspace, pending, preloadVars, pageVars>>

\* ------------------------------------------------- the preview workspace
\* tree.getElementsByTagName('category').length == 0
NoCategories(tree) == \A i \in 1..Len(tree) : tree[i].tag /= "category"

\* reinjectPreview(tree): the workspace Blockly.inject returns for the
\* toolbox `tree`, with a toolbox_ when the tree has categories and a
\* flyout_ otherwise.
reinjectPreview(tree) == [toolbox_ |-> ~NoCategories(tree), shown |-> tree]

\* FactoryController.updatePreview of the namespace-style revision, in which
\* previewWorkspace is one global: the globals and the preview workspace it
\* leaves, the tree generated and what was done with it.
updatePreviewMap(g, preview) ==
  LET r == generateConfigXmlMap(g)
      tree == r.xmlDom
  IN IF r.g.threw
     THEN [g |-> r.g, preview |-> preview, tree |-> tree, how |-> "error"]
     ELSE IF NoCategories(tree)
     THEN IF preview.toolbox_
          THEN [g |-> r.g, preview |-> reinjectPreview(tree), tree |-> tree,
                how |-> "reinject"]
          ELSE [g |-> r.g, preview |-> [preview EXCEPT !.shown = tree], tree |-> tree,
                how |-> "show"]
     ELSE IF ~preview.toolbox_
          THEN [g |-> r.g, preview |-> reinjectPreview(tree), tree |-> tree,
                how |-> "reinject"]
          ELSE [g |-> r.g, preview |-> [preview EXCEPT !.shown = tree], tree |-> tree,
                how |-> "populate"]

\* FactoryController.prototype.updatePreview of the class-style revision:
\* `preview` is this.previewWorkspace, which reinjectPreview replaces, and
\* `global` is what the identifier previewWorkspace of the test
\* `!previewWorkspace.toolbox_` denotes: nothing (a ReferenceError), or the
\* workspace the page injected first, which reinjectPreview disposes and
\* which never has a toolbox_.
updatePreviewProto(g, preview, global) ==
  LET r == generateConfigXmlMap(g)
      tree == r.xmlDom
  IN IF r.g.threw
     THEN [g |-> r.g, preview |-> preview, tree |-> tree, how |-> "error"]
     ELSE IF NoCategories(tree)
     THEN IF preview.toolbox_
          THEN [g |-> r.g, preview |-> reinjectPreview(tree), tree |-> tree,
                how |-> "reinject"]
          ELSE [g |-> r.g, preview |-> [preview EXCEPT !.shown = tree], tree |-> tree,
                how |-> "show"]
     ELSE IF ~global.bound
          THEN [g |-> Throw(r.g), preview |-> preview, tree |-> tree, how |-> "error"]
     ELSE IF ~global.toolbox_
          THEN [g |-> r.g, preview |-> reinjectPreview(tree), tree |-> tree,
                how |-> "reinject"]
     ELSE IF ~preview.toolbox_
          THEN [g |-> Throw(r.g), preview |-> preview, tree |-> tree, how |-> "error"]
          ELSE [g |-> r.g, preview |-> [preview EXCEPT !.shown = tree], tree |-> tree,
                how |-> "populate"]

\* The call of updatePreview ended in r.
PreviewCommit(r) ==
  /\ CommitGlobals(r.g, "controller.updatePreview", NullRef, r.how)
  /\ previewWorkspace' = r.preview
  /\ xmlDom' = r.tree
  /\ leftWith' = r.g.leftWith

\* "Update Preview" button of the namespace-style revision.
UpdatePreviewMap ==
  /\ PreviewCommit(updatePreviewMap(Globals, previewWorkspace))
  /\ UNCHANGED <<uidCount, listVars, shadowBlocks, hiddenWorkspace, pending, preloadVars,
                 windowPreviewWorkspace, selectedTab>>

\* "Update Preview" button of the class-style revision.
UpdatePreviewProto ==
  /\ PreviewCommit(updatePreviewProto(Globals, previewWorkspace, windowPreviewWorkspace))
  /\ UNCHANGED <<uidCount, listVars, shadowBlocks, hiddenWorkspace, pending, preloadVars,
                 windowPreviewWorkspace, selectedTab>>

\* Add, edit and switch only.
NextSwitch ==
  \/ \E name \in Answers : AddCategory(name)
  \/ \E i \in 1..Len(table) : SwitchCategory(table[i])
  \/ \E type \in BlockTypes : AddBlock(type)
  \/ \E i \in 1..MaxBlocks : RemoveBlock(i)

\* Add, switch and rename only.
NextRename ==
  \/ \E name \in Answers : AddCategory(name)
  \/ \E i \in 1..Len(table) : SwitchCategory(table[i])
  \/ \E newName \in Answers : ChangeName(newName)

\* The handlers that call switchCategory, and the user's edits.
NextMap ==
  \/ \E name \in Answers : AddCategory(name)
  \/ \E name \in Answers : RemoveCategory(name)
  \/ \E i \in 1..Len(table) : SwitchCategory(table[i])
  \/ \E key \in Keys : MoveCategory(key)
  \/ \E type \in BlockTypes : AddBlock(type)
  \/ \E i \in 1..MaxBlocks : RemoveBlock(i)

\* Add, switch, rename and remove.
NextRemove ==
  \/ \E name \in Answers : AddCategory(name)
  \/ \E i \in 1..Len(table) : SwitchCategory(table[i])
  \/ \E newName \in Answers : ChangeName(newName)
  \/ \E name \in Answers : RemoveCategory(name)

\* Add, edit, switch and generate.
NextMapGen ==
  \/ \E name \in Answers : AddCategory(name)
  \/ \E i \in 1..Len(table) : SwitchCategory(table[i])
  \/ \E type \in BlockTypes : AddBlock(type)
  \/ \E i \in 1..MaxBlocks : RemoveBlock(i)
  \/ GenerateConfigXmlMap

SpecSwitch == Init /\ [][NextSwitch]_vars
SpecMapGen == Init /\ [][NextMapGen]_vars
SpecRemove == Init /\ [][NextRemove]_vars
SpecRename == Init /\ [][NextRename]_vars
SpecMap == Init /\ [][NextMap]_vars

\* --------------------------------------- the tabs of the list-based view
\* In the category table of this view `table` holds, row by row, the cell of
\* the row: the tab of an element (its address is the id of the element),
\* NullRef for a row without a cell, HelpRow for the row with the text
\* 'Your categories will appear here'.
HelpRow == -1

\* The view: its tab map and the category table of the document.
View == [tabMap |-> tabMap, table |-> table, threw |-> FALSE]

\* table.insertRow(index): a new row without cells.
insertRow(rows, index) == SpliceIn(rows, index, NullRef)

\* table.deleteRow(index)
deleteRow(rows, index) == SpliceOut(rows, index)

\* table.rows[index].appendChild(tab): the cell leaves the row it was in.
appendChild(rows, index, tab) ==
  [i \in 1..Len(rows) |-> IF i = index + 1 THEN tab
                          ELSE IF rows[i] = tab THEN NullRef ELSE rows[i]]

\* FactoryView.prototype.addCategoryRow(name, id, firstCategory)
addCategoryTab(v, id, firstCategory) ==
  LET rows == IF firstCategory THEN deleteRow(v.table, 0) ELSE v.table
  IN [v EXCEPT !.table = Append(rows, id), !.tabMap = (id :> id) @@ v.tabMap]

\* FactoryView.prototype.deleteElementRow(id, index)
deleteElementRow(v, id, index) ==
  LET count == Len(v.table)
      rows == deleteRow(v.table, index)
  IN [v EXCEPT !.tabMap = Without(v.tabMap, id),
               !.table = IF count = 1 THEN insertRow(rows, 0) ELSE rows,
               !.table[1] = IF count = 1 THEN HelpRow ELSE @]

\* FactoryView.prototype.moveTabToIndex(id, newIndex, oldIndex)
moveTabToIndexSameRow(v, id, newIndex, oldIndex) ==
  IF newIndex < 0 \/ newIndex >= Len(v.table) \/ oldIndex < 0 \/ oldIndex >= Len(v.table)
  THEN Throw(v)
  ELSE IF id \notin DOMAIN v.tabMap
  THEN [Throw(v) EXCEPT !.table = insertRow(v.table, newIndex)]
  ELSE [v EXCEPT !.table =
          deleteRow(appendChild(insertRow(v.table, newIndex), newIndex, v.tabMap[id]),
                    oldIndex)]
moveTabToIndex(v, id, newIndex, oldIndex) ==
  IF newIndex < 0 \/ newIndex >= Len(v.table) \/ oldIndex < 0 \/ oldIndex >= Len(v.table)
  THEN Throw(v)
  ELSE IF newIndex < oldIndex
  THEN IF id \notin DOMAIN v.tabMap
       THEN [Throw(v) EXCEPT !.table = insertRow(v.table, newIndex)]
       ELSE [v EXCEPT !.table =
               deleteRow(appendChild(insertRow(v.table, newIndex), newIndex, v.tabMap[id]),
                         oldIndex + 1)]
  ELSE IF id \notin DOMAIN v.tabMap
       THEN [Throw(v) EXCEPT !.table = insertRow(v.table, newIndex + 1)]
       ELSE [v EXCEPT !.table =
               deleteRow(appendChild(insertRow(v.table, newIndex + 1), newIndex + 1,
                                     v.tabMap[id]),
                         oldIndex)]

\* What the actions on model and tabs leave alone.
tabsUnchanged ==
  <<xmlMap, idMap, categoryList, selectedId, cells, lastSwitch, leftWith, toolboxWorkspace,
    genVars>>

\* A category is added to the model and gets its tab; it is the first
\* category when the table holds the help row.
AddCategoryTab(name) ==
  /\ uidCount < MaxUid
  /\ Len(toolboxList) < MaxLen
  /\ LET addr == uidCount + 1
         category == ListElement(TYPE_CATEGORY, name, uidCount)
         v == addCategoryTab(View, category.id, table = <<HelpRow>>)
     IN /\ Become(addElementToList(Alloc(This, addr, category), addr))
        /\ tabMap' = v.tabMap
        /\ table' = v.table
        /\ lastOp' = [op |-> "addCategoryTab", ret |-> category.id, tag |-> "", err |-> Null]
  /\ uidCount' = uidCount + 1
  /\ numAdds' = numAdds + 1
  /\ UNCHANGED <<numRemoves, tabsUnchanged>>

\* The element at `index` is deleted from the model and its row from the
\* table.
DeleteElementTab(index) ==
  /\ InBounds(index)
  /\ LET v == deleteElementRow(View, heap[toolboxList[index + 1]].id, index)
     IN /\ Become(deleteElementFromList(This, index))
        /\ tabMap' = v.tabMap
        /\ table' = v.table
        /\ lastOp' = [op |-> "deleteElementTab", ret |-> NullRef, tag |-> "", err |-> Null]
  /\ numRemoves' = numRemoves + 1
  /\ UNCHANGED <<uidCount, numAdds, tabsUnchanged>>

\* view.moveTabToIndex(id, newIndex, oldIndex) and
\* model.moveElementToIndex(element, newIndex, oldIndex) for the element at
\* oldIndex (the first element when no element is there) of a list that has
\* elements. lastOp.err tells what the model threw, lastOp.tag what the view
\* threw, and lastOp.ret is newIndex - oldIndex.
MoveTabAndElement(newIndex, oldIndex) ==
  /\ toolboxList /= << >>
  /\ LET element == toolboxList[IF InBounds(oldIndex) THEN oldIndex + 1 ELSE 1]
         id == heap[element].id
         v == moveTabToIndex(View, id, newIndex, oldIndex)
         out == moveIndexOutOfBounds(This, newIndex, oldIndex)
     IN /\ IF out
           THEN UNCHANGED <<heap, toolboxList, flyout, selected, hasVariableCategory,
                            hasProcedureCategory>>
           ELSE Become(moveElementToIndex(This, element, newIndex, oldIndex))
        /\ tabMap' = v.tabMap
        /\ table' = v.table
        /\ lastOp' = [op |-> "moveTabAndElement", ret |-> newIndex - oldIndex,
                      tag |-> IF v.threw THEN "threw" ELSE "moved",
                      err |-> IF out THEN "IndexOutOfBounds" ELSE Null]
  /\ UNCHANGED <<uidCount, numAdds, numRemoves, tabsUnchanged>>

\* The page of the list-based view: the table holds the help row.
InitTabs == InitObjects /\ table = <<HelpRow>> /\ InitPage

NextTabs ==
  \/ \E name \in Names : AddCategoryTab(name)
  \/ \E index \in Indices : DeleteElementTab(index)
  \/ \E newIndex, oldIndex \in Indices : MoveTabAndElement(newIndex, oldIndex)
  \/ \E i \in 1..Len(toolboxList) : SetSelectedById(heap[toolboxList[i]].id)

SpecTabs == InitTabs /\ [][NextTabs]_vars

\* ------------------------------------------ application tabs and arrow keys
\* The tabs of the application.
Tabs == {"BLOCK_FACTORY", "WORKSPACE_FACTORY", "EXPORTER"}

\* e.keyCode of the keys a user may press: arrow up, arrow down, enter.
KeyCodes == {38, 40, 13}

\* `this.selectedTab` as the keydown listener reads it: the listener is a
\* plain function registered on window, so `this` is window, which has no
\* property selectedTab.
listenerSelectedTab == JsUndefined

\* controller.moveElement(offset): the selected entry changes places with
\* the entry at currentIndex + offset; nothing happens when that index is
\* out of bounds or no entry is selected.
moveElement(m, offset) ==
  LET cur == FirstIndex(m.toolboxList, LAMBDA a : a = m.selected)
      swap == cur + offset
  IN IF cur = -1 \/ swap < 0 \/ swap >= Len(m.toolboxList) THEN m
     ELSE moveElementToIndex(m, m.selected, swap, cur)

\* The keydown listener of addWorkspaceFactoryEventListeners_.
keydown(m, keyCode, tab) ==
  IF tab /= "WORKSPACE_FACTORY" /\ keyCode = 38 THEN moveElement(m, -1)
  ELSE IF tab /= "WORKSPACE_FACTORY" /\ keyCode = 40 THEN moveElement(m, 1)
  ELSE m

\* A click on the tab `tabName`: setSelected_ and onTab, which shows and
\* hides content.
TabClick(tabName) ==
  /\ selectedTab' = tabName
  /\ lastOp' = [op |-> "tabClick", ret |-> NullRef, tag |-> tabName, err |-> Null]
  /\ UNCHANGED <<listVars, mapVars, toolboxWorkspace, uidCount, shadowBlocks,
                 hiddenWorkspace, xmlDom, pending, preloadVars, previewWorkspace,
                 windowPreviewWorkspace>>

\* A key is pressed; lastOp.tag is the application tab selected then.
KeyDown(keyCode) ==
  /\ Become(keydown(This, keyCode, listenerSelectedTab))
  /\ lastOp' = [op |-> "keydown", ret |-> keyCode, tag |-> selectedTab, err |-> Null]
  /\ UNCHANGED <<uidCount, numAdds, numRemoves, mapVars, toolboxWorkspace, genVars>>

NextKeys ==
  \/ \E name \in Names : AddCategoryToList(name)
  \/ AddSeparatorToList
  \/ \E i \in 1..Len(toolboxList) : SetSelectedById(heap[toolboxList[i]].id)
  \/ \E tabName \in Tabs : TabClick(tabName)
  \/ \E keyCode \in KeyCodes : KeyDown(keyCode)

SpecKeys == Init /\ [][NextKeys]_vars

\* The page of the class-style revision: the identifier previewWorkspace is
\* bound to the workspace injected first, or to nothing.
InitProto ==
  /\ InitModel
  /\ previewWorkspace = NewPreviewWorkspace
  /\ windowPreviewWorkspace \in {[bound |-> TRUE, toolbox_ |-> FALSE],
                                 [bound |-> FALSE, toolbox_ |-> FALSE]}
  /\ selectedTab = "BLOCK_FACTORY"

\* The handlers of the controller, the user's edits and "Update Preview".
NextPreviewMap ==
  \/ \E name \in Answers : AddCategory(name)
  \/ \E name \in Answers : RemoveCategory(name)
  \/ \E i \in 1..Len(table) : SwitchCategory(table[i])
  \/ \E key \in Keys : MoveCategory(key)
  \/ AddBlock("controls_if")
  \/ \E i \in 1..MaxBlocks : RemoveBlock(i)
  \/ UpdatePreviewMap

NextPreviewProto ==
  \/ \E name \in Answers : AddCategory(name)
  \/ \E name \in Answers : RemoveCategory(name)
  \/ \E i \in 1..Len(table) : SwitchCategory(table[i])
  \/ \E key \in Keys : MoveCategory(key)
  \/ AddBlock("controls_if")
  \/ \E i \in 1..MaxBlocks : RemoveBlock(i)
  \/ UpdatePreviewProto

\* The handlers of the controller that write the names and ids of the
\* model: add, remove, rename and move, every prompt answered with a name.
NextHandlers ==
  \/ \E name \in Names : AddCategory(name)
  \/ \E name \in Names : RemoveCategory(name)
  \/ \E newName \in Names : ChangeName(newName)
  \/ \E key \in {"ArrowUp", "ArrowDown"} : MoveCategory(key)

SpecHandlers == Init /\ [][NextHandlers]_vars
SpecPreviewMap == Init /\ [][NextPreviewMap]_vars
SpecPreviewProto == InitProto /\ [][NextPreviewProto]_vars

\* The three handlers that prompt for a name, tab clicks and a block dragged
\* onto the surface.
NextPrompt ==
  \/ \E name \in Answers : AddCategory(name)
  \/ \E name \in Answers : RemoveCategory(name)
  \/ \E newName \in Answers : ChangeName(newName)
  \/ \E i \in 1..Len(table) : SwitchCategory(table[i])
  \/ AddBlock("controls_if")

SpecPrompt == Init /\ [][NextPrompt]_vars

\* ===================================================================
\* FactoryGenerator over the list-based model with user-made shadow blocks
\* ===================================================================

\* Ids Blockly.genUid may issue in behaviours with blocks: the elements of
\* the list and the blocks of the surface draw their ids from one generator.
MaxGenUid == 5

\* A block a user drags onto a workspace: an ordinary block of its own colour
\* with no blocks nested in it.
Block(id, type) ==
  [id |-> id, type |-> type, shadow |-> FALSE, colour |-> "", kids |-> << >>]

\* Blockly.Xml.blockToDom: a shadow node for a block whose shadow flag is
\* set, a block node otherwise, with the block's type and id as attributes
\* and the nodes of the blocks nested in it as children.
RECURSIVE blockToDom(_)
blockToDom(block) ==
  [tag |-> IF block.shadow THEN "shadow" ELSE "block",
   type |-> block.type,
   id |-> block.id,
   kids |-> [i \in 1..Len(block.kids) |-> blockToDom(block.kids[i])]]

\* Blockly.Xml.domToBlock: the block of a node, with the node's id, a real
\* shadow block for a shadow node, in the colour of its type.
RECURSIVE domToBlock(_)
domToBlock(node) ==
  [id |-> node.id,
   type |-> node.type,
   shadow |-> node.tag = "shadow",
   colour |-> "",
   kids |-> [i \in 1..Len(node.kids) |-> domToBlock(node.kids[i])]]

\* Blockly.Xml.workspaceToDom for a workspace of such blocks.
XmlWorkspaceToDom(workspace) ==
  [i \in 1..Len(workspace) |-> blockToDom(workspace[i])]

\* Blockly.Xml.domToWorkspace for a workspace of such blocks: the blocks of
\* xml are added to those of the workspace.
XmlDomToWorkspace(xml, workspace) ==
  workspace \o [i \in 1..Len(xml) |-> domToBlock(xml[i])]

\* workspace.getAllBlocks(): the top blocks and the blocks nested in them.
RECURSIVE getAllBlocks(_)
getAllBlocks(blocks) ==
  IF blocks = << >> THEN << >>
  ELSE <<Head(blocks)>> \o getAllBlocks(Head(blocks).kids) \o getAllBlocks(Tail(blocks))

\* FactoryModel.prototype.addShadowBlock
addShadowBlock(shadows, blockId) == Append(shadows, blockId)

\* FactoryModel.prototype.removeShadowBlock: the first entry equal to blockId
\* is spliced out, and the loop ends there.
removeShadowBlock(shadows, blockId) ==
  IF \E i \in 1..Len(shadows) : shadows[i] = blockId
  THEN LET first == CHOOSE i \in 1..Len(shadows) :
                      /\ shadows[i] = blockId
                      /\ \A j \in 1..(i - 1) : shadows[j] /= blockId
       IN SpliceOut(shadows, first - 1)
  ELSE shadows

\* FactoryModel.prototype.isShadowBlock
isShadowBlock(shadows, blockId) == \E i \in 1..Len(shadows) : shadows[i] = blockId

\* FactoryModel.prototype.markShadowBlock: block.setColour('#000000')
markShadowBlock(block) == [block EXCEPT !.colour = "#000000"]

\* FactoryModel.prototype.markShadowBlocks, applied to workspace.getAllBlocks()
RECURSIVE markShadowBlocks(_, _)
markShadowBlocks(shadows, blocks) ==
  [i \in 1..Len(blocks) |->
     LET b == [blocks[i] EXCEPT !.kids = markShadowBlocks(shadows, @)]
     IN IF isShadowBlock(shadows, b.id) THEN markShadowBlock(b) ELSE b]

\* FactoryModel.prototype.setShadowBlocks, applied to workspace.getAllBlocks()
RECURSIVE setShadowBlocksNone(_, _)
setShadowBlocksNone(shadows, blocks) == blocks
RECURSIVE setShadowBlocks(_, _)
setShadowBlocks(shadows, blocks) ==
  [i \in 1..Len(blocks) |->
     LET b == [blocks[i] EXCEPT !.kids = setShadowBlocks(shadows, @)]
     IN IF isShadowBlock(shadows, b.id) THEN [b EXCEPT !.shadow = TRUE] ELSE b]

\* FactoryModel.prototype.hasToolbox
hasToolboxNever(m) == FALSE
hasToolbox(m) == Len(m.toolboxList) > 0

\* FactoryModel.prototype.saveCategoryInList (category: an address)
saveCategoryInList(m, category, workspace) ==
  IF category = NullRef \/ m.heap[category].type /= TYPE_CATEGORY THEN m
  ELSE [m EXCEPT !.heap[category].xml = XmlWorkspaceToDom(workspace)]

\* FactoryModel.prototype.getSelectedXml
getSelectedXml(m) == IF m.selected /= NullRef THEN m.heap[m.selected].xml ELSE UndefinedXml

\* FactoryGenerator.prototype.categoryWorkspaceToDom: the nodes appended to
\* xmlDom, one per top block, each without its id attribute.
categoryWorkspaceToDom(blocks) ==
  [i \in 1..Len(blocks) |-> [blockToDom(blocks[i]) EXCEPT !.id = NullRef]]

\* What the generator works on: the model, its shadow block ids, the editing
\* surface, the hidden workspace and the document returned; `threw` tells
\* that the call raised an error.
Gen ==
  [m |-> This, shadowBlocks |-> shadowBlocks, toolboxWorkspace |-> toolboxWorkspace,
   hiddenWorkspace |-> hiddenWorkspace, xmlDom |-> xmlDom, threw |-> FALSE]

\* The element created in the loop of generateConfigXml for the element at
\* `addr`, `loaded` being the workspace after element.xml was loaded into it
\* and the shadow blocks were set.
ElementDomAsCategory(m, addr, loaded) ==
  [tag |-> "category", name |-> m.heap[addr].name, colour |-> m.heap[addr].color,
   custom |-> m.heap[addr].custom, kids |-> categoryWorkspaceToDom(loaded)]
ElementDom(m, addr, loaded) ==
  LET element == m.heap[addr]
  IN IF element.type = TYPE_SEPARATOR
     THEN [tag |-> "sep", name |-> Null, colour |-> Null, custom |-> Null, kids |-> << >>]
     ELSE [tag |-> "category", name |-> element.name, colour |-> element.color,
           custom |-> element.custom, kids |-> categoryWorkspaceToDom(loaded)]

\* FactoryGenerator.prototype.generateConfigXml, the revision that loads
\* every category into the editing surface and restores the surface at the
\* end.
generateConfigXmlNoRestore(s) ==
  IF ~hasToolbox(s.m)
  THEN [s EXCEPT !.toolboxWorkspace = setShadowBlocks(s.shadowBlocks, @),
                 !.xmlDom = categoryWorkspaceToDom(setShadowBlocks(s.shadowBlocks, s.toolboxWorkspace))]
  ELSE IF getSelected(s.m) = NullRef THEN [s EXCEPT !.threw = TRUE]
  ELSE
    LET m1 == saveCategoryInList(s.m, getSelected(s.m), s.toolboxWorkspace)
        Loaded(addr) == setShadowBlocks(s.shadowBlocks,
                                        XmlDomToWorkspace(m1.heap[addr].xml, << >>))
        last == m1.toolboxList[Len(m1.toolboxList)]
    IN [s EXCEPT
          !.m = m1,
          !.xmlDom = [i \in 1..Len(m1.toolboxList) |->
                        ElementDom(m1, m1.toolboxList[i], Loaded(m1.toolboxList[i]))],
          !.toolboxWorkspace = IF m1.heap[last].type = TYPE_SEPARATOR THEN @ ELSE Loaded(last)]
generateConfigXml(s) ==
  IF ~hasToolbox(s.m)
  THEN
    LET xml == XmlWorkspaceToDom(s.toolboxWorkspace)
        set == setShadowBlocks(s.shadowBlocks, s.toolboxWorkspace)
    IN [s EXCEPT
          !.xmlDom = categoryWorkspaceToDom(set),
          !.toolboxWorkspace = markShadowBlocks(s.shadowBlocks, XmlDomToWorkspace(xml, << >>))]
  ELSE IF getSelected(s.m) = NullRef THEN [s EXCEPT !.threw = TRUE]
  ELSE
    LET m1 == saveCategoryInList(s.m, getSelected(s.m), s.toolboxWorkspace)
        xml == getSelectedXml(m1)
        Loaded(addr) == setShadowBlocks(s.shadowBlocks,
                                        XmlDomToWorkspace(m1.heap[addr].xml, << >>))
    IN [s EXCEPT
          !.m = m1,
          !.xmlDom = [i \in 1..Len(m1.toolboxList) |->
                        ElementDom(m1, m1.toolboxList[i], Loaded(m1.toolboxList[i]))],
          !.toolboxWorkspace = markShadowBlocks(s.shadowBlocks, XmlDomToWorkspace(xml, << >>))]

\* FactoryGenerator.prototype.generateConfigXml, the revision that loads
\* every category into a hidden workspace and leaves the editing surface
\* alone.
generateConfigXmlHidden(s) ==
  IF ~hasToolbox(s.m)
  THEN
    LET xml == XmlWorkspaceToDom(s.toolboxWorkspace)
        set == setShadowBlocks(s.shadowBlocks, XmlDomToWorkspace(xml, << >>))
    IN [s EXCEPT !.hiddenWorkspace = set, !.xmlDom = categoryWorkspaceToDom(set)]
  ELSE IF getSelected(s.m) = NullRef THEN [s EXCEPT !.threw = TRUE]
  ELSE
    LET m1 == saveCategoryInList(s.m, getSelected(s.m), s.toolboxWorkspace)
        Loaded(addr) == setShadowBlocks(s.shadowBlocks,
                                        XmlDomToWorkspace(m1.heap[addr].xml, << >>))
        categories == SelectSeq(m1.toolboxList,
                                LAMBDA a : m1.heap[a].type /= TYPE_SEPARATOR)
    IN [s EXCEPT
          !.m = m1,
          !.xmlDom = [i \in 1..Len(m1.toolboxList) |->
                        ElementDom(m1, m1.toolboxList[i], Loaded(m1.toolboxList[i]))],
          !.hiddenWorkspace = IF categories = << >> THEN @
                              ELSE Loaded(categories[Len(categories)])]

\* The controller's switch to the element with the given id: the blocks on
\* the surface are saved for the selected category, the element becomes the
\* selected one, and the surface is cleared and loaded with its content,
\* the user-made shadow blocks marked.
switchElement(s, id) ==
  LET m1 == saveCategoryInList(s.m, getSelected(s.m), s.toolboxWorkspace)
      m2 == setSelectedById(m1, id)
  IN [s EXCEPT
        !.m = m2,
        !.toolboxWorkspace =
           IF getSelected(m2) = NullRef THEN << >>
           ELSE markShadowBlocks(s.shadowBlocks, XmlDomToWorkspace(getSelectedXml(m2), << >>))]

\* ------------------------------------------------ actions with a generator
\* The state after the constructor of the list-based model without a flyout
\* element: no elements, nothing selected, no shadow blocks.
InitGen ==
  /\ heap = << >>
  /\ toolboxList = << >>
  /\ flyout = NullRef
  /\ selected = NullRef
  /\ hasVariableCategory = FALSE
  /\ hasProcedureCategory = FALSE
  /\ xmlMap = << >>
  /\ idMap = << >>
  /\ categoryList = << >>
  /\ selectedId = NullRef
  /\ tabMap = << >>
  /\ table = << >>
  /\ cells = << >>
  /\ leftWith = << >>
  /\ toolboxWorkspace = << >>
  /\ uidCount = 0
  /\ numAdds = 0
  /\ numRemoves = 0
  /\ lastOp = [op |-> "init", ret |-> NullRef, tag |-> "", err |-> Null]
  /\ lastSwitch = NoSwitch
  /\ shadowBlocks = << >>
  /\ hiddenWorkspace = << >>
  /\ xmlDom = << >>
  /\ pending = << >>
  /\ preloadXml = EmptyXml
  /\ blockTypeList = << >>
  /\ InitPage

\* The call `op` of the generator or the controller ended in s.
GenCommit(s, op, tag) ==
  /\ Become(s.m)
  /\ shadowBlocks' = s.shadowBlocks
  /\ toolboxWorkspace' = s.toolboxWorkspace
  /\ hiddenWorkspace' = s.hiddenWorkspace
  /\ xmlDom' = s.xmlDom
  /\ lastOp' = [op |-> op, ret |-> NullRef, tag |-> tag,
                err |-> IF s.threw THEN "Error" ELSE Null]

\* Whether the generator is in its branch for a model with elements.
GenMode == IF hasToolbox(This) THEN "category" ELSE "flyout"

\* generateConfigXml() of the revision that works on the editing surface.
GenerateConfigXml ==
  /\ GenCommit(generateConfigXml(Gen), "generateConfigXml", GenMode)
  /\ UNCHANGED <<uidCount, numAdds, numRemoves, mapVars, pending, preloadVars, pageVars>>

\* generateConfigXml(toolboxWorkspace) of the revision with a hidden workspace.
GenerateConfigXmlHidden ==
  /\ GenCommit(generateConfigXmlHidden(Gen), "generateConfigXml.hidden", GenMode)
  /\ UNCHANGED <<uidCount, numAdds, numRemoves, mapVars, pending, preloadVars, pageVars>>

\* A click on the tab of the element with the given id.
SwitchElement(id) ==
  /\ GenCommit([switchElement(Gen, id) EXCEPT !.xmlDom = << >>], "switchElement", "")
  /\ UNCHANGED <<uidCount, numAdds, numRemoves, mapVars, pending, preloadVars, pageVars>>

\* model.addCategoryToList(name) of the revision without a flyout element:
\* a new category is appended; the selection and the surface stay.
AddCategory2(name) ==
  /\ uidCount < MaxUid
  /\ Len(toolboxList) < MaxLen
  /\ LET addr == uidCount + 1
         category == ListElement(TYPE_CATEGORY, name, uidCount)
     IN Become([Alloc(This, addr, category) EXCEPT !.toolboxList = Append(@, addr)])
  /\ uidCount' = uidCount + 1
  /\ numAdds' = numAdds + 1
  /\ lastOp' = [op |-> "addCategory", ret |-> NullRef, tag |-> "", err |-> Null]
  /\ xmlDom' = << >>
  /\ UNCHANGED <<numRemoves, mapVars, toolboxWorkspace, shadowBlocks, hiddenWorkspace, pending, preloadVars, pageVars>>

\* model.addSeparatorToList() of that revision.
AddSeparator2 ==
  /\ uidCount < MaxUid
  /\ Len(toolboxList) < MaxLen
  /\ LET addr == uidCount + 1
         sep == ListElement(TYPE_SEPARATOR, Null, uidCount)
     IN Become([Alloc(This, addr, sep) EXCEPT !.toolboxList = Append(@, addr)])
  /\ uidCount' = uidCount + 1
  /\ numAdds' = numAdds + 1
  /\ lastOp' = [op |-> "addSeparator", ret |-> NullRef, tag |-> "", err |-> Null]
  /\ xmlDom' = << >>
  /\ UNCHANGED <<numRemoves, mapVars, toolboxWorkspace, shadowBlocks, hiddenWorkspace, pending, preloadVars, pageVars>>

\* The surface takes blocks unless a separator is selected (the view then
\* covers it).
WorkspaceEnabled ==
  IF selected = NullRef THEN TRUE ELSE heap[selected].type /= TYPE_SEPARATOR

\* The user drags a block of type `type` onto the editing surface.
DragBlock(type) ==
  /\ WorkspaceEnabled
  /\ uidCount < MaxGenUid
  /\ Len(toolboxWorkspace) < MaxBlocks
  /\ toolboxWorkspace' = Append(toolboxWorkspace, Block(GenUid(uidCount), type))
  /\ uidCount' = uidCount + 1
  /\ lastOp' = [op |-> "edit", ret |-> NullRef, tag |-> "top", err |-> Null]
  /\ xmlDom' = << >>
  /\ UNCHANGED <<listVars, mapVars, shadowBlocks, hiddenWorkspace, pending, preloadVars, pageVars>>

\* The user drags a block of type `type` into the top block at position i.
DragBlockInto(i, type) ==
  /\ WorkspaceEnabled
  /\ uidCount < MaxGenUid
  /\ i \in 1..Len(toolboxWorkspace)
  /\ toolboxWorkspace[i].kids = << >>
  /\ toolboxWorkspace' =
       [toolboxWorkspace EXCEPT ![i].kids = <<Block(GenUid(uidCount), type)>>]
  /\ uidCount' = uidCount + 1
  /\ lastOp' = [op |-> "edit", ret |-> NullRef, tag |-> "nested", err |-> Null]
  /\ xmlDom' = << >>
  /\ UNCHANGED <<listVars, mapVars, shadowBlocks, hiddenWorkspace, pending, preloadVars, pageVars>>

\* The user deletes the top block at position i, with the blocks in it.
DeleteBlock(i) ==
  /\ WorkspaceEnabled
  /\ i \in 1..Len(toolboxWorkspace)
  /\ toolboxWorkspace' = SpliceOut(toolboxWorkspace, i - 1)
  /\ lastOp' = [op |-> "edit", ret |-> NullRef, tag |-> "delete", err |-> Null]
  /\ xmlDom' = << >>
  /\ UNCHANGED <<listVars, mapVars, uidCount, shadowBlocks, hiddenWorkspace, pending, preloadVars, pageVars>>

\* "Add Shadow" for the block nested in the top block at position i, offered
\* for a nested block that is not yet a user-made shadow block: its id joins
\* the shadow block ids and the block is marked.
AddShadow(i) ==
  /\ i \in 1..Len(toolboxWorkspace)
  /\ toolboxWorkspace[i].kids /= << >>
  /\ ~isShadowBlock(shadowBlocks, toolboxWorkspace[i].kids[1].id)
  /\ shadowBlocks' = addShadowBlock(shadowBlocks, toolboxWorkspace[i].kids[1].id)
  /\ toolboxWorkspace' = [toolboxWorkspace EXCEPT ![i].kids[1] = markShadowBlock(@)]
  /\ lastOp' = [op |-> "addShadow", ret |-> NullRef, tag |-> "", err |-> Null]
  /\ xmlDom' = << >>
  /\ UNCHANGED <<listVars, mapVars, uidCount, hiddenWorkspace, pending, preloadVars, pageVars>>

\* model.setCategoryColorById(id, color) for the selected category (the
\* colour picker of the category being edited).
SetCategoryColor(color) ==
  /\ selected /= NullRef
  /\ heap[selected].type = TYPE_CATEGORY
  /\ heap[selected].color /= color
  /\ Become([This EXCEPT !.heap[selected].color = color])
  /\ lastOp' = [op |-> "setColor", ret |-> NullRef, tag |-> "", err |-> Null]
  /\ xmlDom' = << >>
  /\ UNCHANGED <<uidCount, numAdds, numRemoves, mapVars, toolboxWorkspace, shadowBlocks,
                 hiddenWorkspace, pending, preloadVars, pageVars>>

NextGen ==
  \/ \E name \in Names : AddCategory2(name)
  \/ AddSeparator2
  \/ \E a \in Range(toolboxList) : SwitchElement(heap[a].id)
  \/ DragBlock("controls_if")
  \/ \E i \in 1..MaxBlocks : DragBlockInto(i, "math_number")
  \/ \E i \in 1..MaxBlocks : DeleteBlock(i)
  \/ \E i \in 1..MaxBlocks : AddShadow(i)
  \/ SetCategoryColor("#a55b5b")
  \/ GenerateConfigXml
  \/ GenerateConfigXmlHidden

SpecGen == InitGen /\ [][NextGen]_vars

\* ----------------------------------------- actions on the shadow block ids
\* Block ids the shadow operations are called with.
MaxShadowId == 3
\* Largest number of entries of shadowBlocks.
MaxShadows == 4

\* model.addShadowBlock(blockId)
AddShadowBlock(blockId) ==
  /\ Len(shadowBlocks) < MaxShadows
  /\ shadowBlocks' = addShadowBlock(shadowBlocks, blockId)
  /\ lastOp' = [op |-> "addShadowBlock", ret |-> blockId, tag |-> "", err |-> Null]
  /\ UNCHANGED <<listVars, mapVars, toolboxWorkspace, uidCount, hiddenWorkspace, xmlDom,
                 pending, preloadVars, pageVars>>

\* model.removeShadowBlock(blockId)
RemoveShadowBlock(blockId) ==
  /\ shadowBlocks' = removeShadowBlock(shadowBlocks, blockId)
  /\ lastOp' = [op |-> "removeShadowBlock", ret |-> blockId, tag |-> "", err |-> Null]
  /\ UNCHANGED <<listVars, mapVars, toolboxWorkspace, uidCount, hiddenWorkspace, xmlDom,
                 pending, preloadVars, pageVars>>

NextShadow ==
  \/ \E blockId \in 1..MaxShadowId : AddShadowBlock(blockId)
  \/ \E blockId \in 1..MaxShadowId : RemoveShadowBlock(blockId)

SpecShadow == InitGen /\ [][NextShadow]_vars

\* ===================================================================
\* The methods of a ListElement that write its fields
\* ===================================================================

\* Colours a user may pick for a category.
Colors == {"#a55b5b"}

\* ListElement.prototype.saveFromWorkspace
saveFromWorkspaceAnyType(element, workspace) ==
  [element EXCEPT !.xml = workspaceToDom(workspace)]
saveFromWorkspace(element, workspace) ==
  IF element.type = TYPE_FLYOUT \/ element.type = TYPE_CATEGORY
  THEN [element EXCEPT !.xml = workspaceToDom(workspace)]
  ELSE element

\* ListElement.prototype.changeColor
changeColorAnyType(element, color) == [element EXCEPT !.color = color]
changeColor(element, color) ==
  IF element.type /= TYPE_CATEGORY THEN element ELSE [element EXCEPT !.color = color]

\* getSelected().saveFromWorkspace(toolboxWorkspace): the editing surface is
\* saved into the selected element.
SaveFromWorkspace ==
  /\ selected /= NullRef
  /\ Become([This EXCEPT !.heap[selected] = saveFromWorkspace(@, toolboxWorkspace)])
  /\ lastOp' = [op |-> "saveFromWorkspace", ret |-> NullRef,
                tag |-> heap[selected].type, err |-> Null]
  /\ UNCHANGED <<uidCount, numAdds, numRemoves, mapVars, toolboxWorkspace, genVars>>

\* element.changeName(name) for the live element at address a.
ElementChangeName(a, name) ==
  /\ Become([This EXCEPT !.heap[a] = changeName(@, name)])
  /\ lastOp' = [op |-> "changeName", ret |-> NullRef, tag |-> heap[a].type,
                err |-> Null]
  /\ UNCHANGED <<uidCount, numAdds, numRemoves, mapVars, toolboxWorkspace, genVars>>

\* element.changeColor(color) for the live element at address a.
ElementChangeColor(a, color) ==
  /\ Become([This EXCEPT !.heap[a] = changeColor(@, color)])
  /\ lastOp' = [op |-> "changeColor", ret |-> NullRef, tag |-> heap[a].type,
                err |-> Null]
  /\ UNCHANGED <<uidCount, numAdds, numRemoves, mapVars, toolboxWorkspace, genVars>>

NextElement ==
  \/ \E name \in Names : AddCategoryToList(name)
  \/ AddSeparatorToList
  \/ \E t \in StandardCategories : AddCopy(t)
  \/ \E id \in 1..uidCount : SetSelectedById(id)
  \/ AddBlock("controls_if")
  \/ \E i \in 1..MaxBlocks : RemoveBlock(i)
  \/ SaveFromWorkspace
  \/ \E a \in Live(This) : ElementChangeName(a, "Loops")
  \/ \E a \in Live(This), color \in Colors : ElementChangeColor(a, color)

SpecElement == Init /\ [][NextElement]_vars

\* ===================================================================
\* The block types in use: getAllUsedBlockTypes
\* ===================================================================

\* The documents a caller may pass to savePreloadXml: without blocks, with
\* one block, with a block nested in another.
PreloadXmls ==
  { EmptyXml,
    <<[tag |-> "block", type |-> "math_number"]>>,
    <<[tag |-> "block", type |-> "controls_if",
       kids |-> <<[tag |-> "block", type |-> "math_number"]>>]>> }

\* The child nodes of a node.
ChildNodes(node) == IF "kids" \in DOMAIN node THEN node.kids ELSE << >>

\* Element.getElementsByTagName(tagName) for the document with the top-level
\* nodes xml: the descendants with that tag, in document order.
RECURSIVE getElementsByTagName(_, _)
getElementsByTagName(xml, tagName) ==
  IF xml = << >> THEN << >>
  ELSE (IF Head(xml).tag = tagName THEN <<Head(xml)>> ELSE << >>)
       \o getElementsByTagName(ChildNodes(Head(xml)), tagName)
       \o getElementsByTagName(Tail(xml), tagName)

\* The loop of pushBlockTypesToList over the block nodes.
RECURSIVE pushTypes(_, _)
pushTypes(blocks, list) ==
  IF blocks = << >> THEN list
  ELSE pushTypes(Tail(blocks),
                 IF \A i \in 1..Len(list) : list[i] /= Head(blocks).type
                 THEN Append(list, Head(blocks).type)
                 ELSE list)

\* FactoryModel.prototype.pushBlockTypesToList: the list after the call.
pushBlockTypesToList(xml, list) == pushTypes(getElementsByTagName(xml, "block"), list)

\* The loop of getAllUsedBlockTypes over toolboxList from (1-based) index i.
RECURSIVE pushCategoryTypes(_, _, _)
pushCategoryTypes(m, i, list) ==
  IF i > Len(m.toolboxList) THEN list
  ELSE pushCategoryTypes(m, i + 1,
         IF m.heap[m.toolboxList[i]].type = TYPE_CATEGORY
         THEN pushBlockTypesToList(m.heap[m.toolboxList[i]].xml, list)
         ELSE list)

\* FactoryModel.prototype.getAllUsedBlockTypes with this.preloadXml = preload:
\* the array returned; `threw` tells that the call raised a TypeError, which
\* pushBlockTypesToList does for the null that getSelectedXml() returns when
\* nothing is selected.
getAllUsedBlockTypes(m, preload) ==
  IF m.flyout /= NullRef
  THEN IF m.selected = NullRef
       THEN [threw |-> TRUE, list |-> << >>]
       ELSE [threw |-> FALSE,
             list |-> pushBlockTypesToList(preload,
                        pushBlockTypesToList(m.heap[m.selected].xml, << >>))]
  ELSE [threw |-> FALSE,
        list |-> pushBlockTypesToList(preload, pushCategoryTypes(m, 1, << >>))]

\* model.savePreloadXml(xml)
SavePreloadXml(xml) ==
  /\ preloadXml' = xml
  /\ lastOp' = [op |-> "savePreloadXml", ret |-> NullRef, tag |-> "", err |-> Null]
  /\ UNCHANGED <<listVars, mapVars, toolboxWorkspace, uidCount, shadowBlocks,
                 hiddenWorkspace, xmlDom, pending, blockTypeList, pageVars>>

\* model.getAllUsedBlockTypes()
GetAllUsedBlockTypes ==
  /\ LET r == getAllUsedBlockTypes(This, preloadXml)
     IN /\ blockTypeList' = IF r.threw THEN blockTypeList ELSE r.list
        /\ lastOp' = [op |-> "getAllUsedBlockTypes", ret |-> NullRef,
                      tag |-> IF flyout /= NullRef THEN "flyout" ELSE "category",
                      err |-> IF r.threw THEN "TypeError" ELSE Null]
  /\ UNCHANGED <<listVars, mapVars, toolboxWorkspace, uidCount, shadowBlocks,
                 hiddenWorkspace, xmlDom, pending, preloadXml, pageVars>>

NextTypes ==
  \/ AddCategoryToList("Logic")
  \/ AddSeparatorToList
  \/ \E index \in 0..(Len(toolboxList) - 1) : DeleteElementFromList(index)
  \/ \E id \in 1..uidCount : SetSelectedById(id)
  \/ \E type \in BlockTypes : AddBlock(type)
  \/ \E i \in 1..MaxBlocks : RemoveBlock(i)
  \/ SaveFromWorkspace
  \/ \E xml \in PreloadXmls : SavePreloadXml(xml)
  \/ GetAllUsedBlockTypes

SpecTypes == Init /\ [][NextTypes]_vars

\* ===================================================================
\* Change events of the editing surface and the preview update
\* ===================================================================

\* Largest number of events waiting for delivery.
MaxPending == 3

\* A change event of the editing surface; `by` tells whose change fired it:
\* the user's, the generator's or the controller's.
Event(type, by) == [type |-> type, by |-> by]

\* The events workspace.clear() fires: a delete event per top block.
clearEvents(workspace, by) == [i \in 1..Len(workspace) |-> Event("delete", by)]

\* The events Blockly.Xml.domToWorkspace(xml, workspace) fires: a create
\* event per top block.
loadEvents(xml, by) == [i \in 1..Len(xml) |-> Event("create", by)]

\* Blockly.Events.fire: events fired while events are disabled are dropped,
\* the others wait for delivery to the change listeners.
fire(queue, events, enabled) == IF enabled THEN queue \o events ELSE queue

\* The events the loop of generateConfigXml and the statements after it fire
\* from element k of the list on, `workspace` being the blocks on the
\* surface and xml the document loaded at the end.
RECURSIVE generateEventsFrom(_, _, _, _)
generateEventsFrom(m, k, workspace, xml) ==
  IF k > Len(m.toolboxList)
  THEN clearEvents(workspace, "generator") \o loadEvents(xml, "generator")
  ELSE LET element == m.heap[m.toolboxList[k]]
       IN IF element.type = TYPE_SEPARATOR
          THEN generateEventsFrom(m, k + 1, workspace, xml)
          ELSE clearEvents(workspace, "generator") \o loadEvents(element.xml, "generator")
               \o generateEventsFrom(m, k + 1, XmlDomToWorkspace(element.xml, << >>), xml)

\* The events a run of generateConfigXml fires on the editing surface.
generateEvents(s) ==
  IF ~hasToolbox(s.m)
  THEN generateEventsFrom(s.m, 1, s.toolboxWorkspace, XmlWorkspaceToDom(s.toolboxWorkspace))
  ELSE IF getSelected(s.m) = NullRef THEN << >>
  ELSE LET m1 == saveCategoryInList(s.m, getSelected(s.m), s.toolboxWorkspace)
       IN generateEventsFrom(m1, 1, s.toolboxWorkspace, getSelectedXml(m1))

\* The controller's updatePreview: events are disabled, the document is
\* generated, events are enabled again. `queue` holds the waiting events.
updatePreviewEventsOn(s, queue) ==
  [s |-> generateConfigXml(s), pending |-> fire(queue, generateEvents(s), TRUE)]
updatePreview(s, queue) ==
  [s |-> generateConfigXml(s), pending |-> fire(queue, generateEvents(s), FALSE)]

\* The controller's switch to the element with the given id, with events
\* disabled for its duration.
controllerSwitchElement(s, queue, id) ==
  LET s1 == switchElement(s, id)
      events == clearEvents(s.toolboxWorkspace, "controller")
                \o loadEvents(getSelectedXml(s1.m), "controller")
  IN [s |-> s1, pending |-> fire(queue, events, FALSE)]

\* The change listener of the editing surface, called with the event e: a
\* move or delete event updates the preview.
changeListener(s, queue, e) ==
  IF e.type \in {"move", "delete"} THEN updatePreview(s, queue)
  ELSE [s |-> s, pending |-> queue]

\* ---------------------------------------------------- actions with events
\* The user drags a block from the flyout onto the editing surface: a
\* create and a move event are fired.
DropBlock(type) ==
  /\ WorkspaceEnabled
  /\ uidCount < MaxGenUid
  /\ Len(toolboxWorkspace) < MaxBlocks
  /\ Len(pending) + 2 <= MaxPending
  /\ toolboxWorkspace' = Append(toolboxWorkspace, Block(GenUid(uidCount), type))
  /\ uidCount' = uidCount + 1
  /\ pending' = fire(pending, <<Event("create", "user"), Event("move", "user")>>, TRUE)
  /\ lastOp' = [op |-> "edit", ret |-> NullRef, tag |-> "drop", err |-> Null]
  /\ UNCHANGED <<listVars, mapVars, shadowBlocks, hiddenWorkspace, xmlDom, preloadVars, pageVars>>

\* The user drags the top block at position i into the trash: a delete
\* event is fired.
TrashBlock(i) ==
  /\ WorkspaceEnabled
  /\ i \in 1..Len(toolboxWorkspace)
  /\ Len(pending) + 1 <= MaxPending
  /\ toolboxWorkspace' = SpliceOut(toolboxWorkspace, i - 1)
  /\ pending' = fire(pending, <<Event("delete", "user")>>, TRUE)
  /\ lastOp' = [op |-> "edit", ret |-> NullRef, tag |-> "trash", err |-> Null]
  /\ UNCHANGED <<listVars, mapVars, uidCount, shadowBlocks, hiddenWorkspace, xmlDom, preloadVars, pageVars>>

\* The oldest waiting event is delivered to the change listener.
Deliver ==
  /\ pending /= << >>
  /\ LET r == changeListener(Gen, Tail(pending), Head(pending))
     IN /\ GenCommit(r.s, "listener", Head(pending).type)
        /\ pending' = r.pending
  /\ UNCHANGED <<uidCount, numAdds, numRemoves, mapVars, preloadVars, pageVars>>

\* "Add category" of the controller: the category is added to the model and
\* becomes the selected element.
AddCategoryAndSwitch(name) ==
  /\ uidCount < MaxUid
  /\ Len(toolboxList) < MaxLen
  /\ LET addr == uidCount + 1
         category == ListElement(TYPE_CATEGORY, name, uidCount)
         m1 == [Alloc(This, addr, category) EXCEPT !.toolboxList = Append(@, addr)]
         r == controllerSwitchElement([Gen EXCEPT !.m = m1], pending, category.id)
     IN /\ GenCommit(r.s, "controller.addCategory", "")
        /\ pending' = r.pending
  /\ uidCount' = uidCount + 1
  /\ numAdds' = numAdds + 1
  /\ UNCHANGED <<numRemoves, mapVars, preloadVars, pageVars>>

\* A click on the tab of the element with the given id.
ClickTab(id) ==
  /\ LET r == controllerSwitchElement(Gen, pending, id)
     IN /\ GenCommit(r.s, "controller.switchElement", "")
        /\ pending' = r.pending
  /\ UNCHANGED <<uidCount, numAdds, numRemoves, mapVars, preloadVars, pageVars>>

NextEvents ==
  \/ \E name \in Names : AddCategoryAndSwitch(name)
  \/ \E a \in Range(toolboxList) : ClickTab(heap[a].id)
  \/ \E type \in BlockTypes : DropBlock(type)
  \/ \E i \in 1..MaxBlocks : TrashBlock(i)
  \/ Deliver

SpecEvents == InitGen /\ [][NextEvents]_vars

\* ===================================================================
\* Properties of the list-based model (checked under Spec)
\* ===================================================================

\* The entries of `seq` (addresses into `h`) carry pairwise distinct ids.
IdsDistinct(h, seq) ==
  \A i, j \in 1..Len(seq) : i /= j => h[seq[i]].id /= h[seq[j]].id

AddOps == {"addCategory", "addSeparator", "copy"}

\* C1: after every sequence of add (category / separator / copy), remove
\* and move operations the list is as long as the number of successful adds
\* minus the number of successful removes, the ids of its entries are
\* pairwise distinct, and the id of a just added entry is the newest id
\* issued (so it equals no id issued earlier, deleted entries included).
C1_LengthAndDistinctIds ==
  /\ Len(toolboxList) = numAdds - numRemoves
  /\ IdsDistinct(heap, toolboxList)
  /\ lastOp.op \in AddOps =>
       /\ heap[toolboxList[Len(toolboxList)]].id = lastOp.ret
       /\ lastOp.ret = uidCount
       /\ \A a \in DOMAIN heap : a /= toolboxList[Len(toolboxList)] => heap[a].id < lastOp.ret

C1_Witness ==
  /\ lastOp.op = "move" /\ lastOp.err = Null
  /\ numAdds >= 3 /\ numRemoves >= 1 /\ Len(toolboxList) >= 2
  /\ \E i \in 1..Len(toolboxList) : heap[toolboxList[i]].id = uidCount

\* `selected` is null, a flyout placeholder or a member of the list.
SelectedValid(h, seq, sel) ==
  \/ sel = NullRef
  \/ h[sel].type = TYPE_FLYOUT
  \/ sel \in Range(seq)

\* C2 (as claimed): in every reachable state `selected` is null, the flyout
\* placeholder or a member of the entries list.
C2_SelectedNeverDangles == SelectedValid(heap, toolboxList, selected)

\* C2 (amended): setSelectedById and createDefaultSelectedIfEmpty on an empty
\* list leave `selected` null, a flyout placeholder or a member of the list,
\* and every operation other than deleteElementFromList and clearToolboxList
\* keeps it so; those two never update `selected`.
C2_SelectedValidUntilRemoval ==
  [][ /\ lastOp'.op = "setSelected" => SelectedValid(heap', toolboxList', selected')
      /\ (lastOp'.op = "createDefault" /\ Len(toolboxList) = 0) =>
            SelectedValid(heap', toolboxList', selected')
      /\ (SelectedValid(heap, toolboxList, selected) /\ lastOp'.op \notin {"delete", "clear"}) =>
            SelectedValid(heap', toolboxList', selected')
      /\ lastOp'.op \in {"delete", "clear"} => selected' = selected ]_vars

C2_Witness ==
  /\ lastOp.op = "setSelected"
  /\ selected \in Range(toolboxList)
  /\ numRemoves >= 1
  /\ Len(toolboxList) >= 1

\* C3 (as claimed): after the last remaining entry is deleted the list is
\* empty and `selected` is the flyout placeholder.
C3_DeleteLastGivesFlyout ==
  (lastOp.op = "delete" /\ lastOp.tag = "last") =>
     /\ Len(toolboxList) = 0
     /\ selected /= NullRef
     /\ selected = flyout
     /\ heap[selected].type = TYPE_FLYOUT

\* C3 (amended): deleting the last remaining entry empties the list, and the
\* call of createDefaultSelectedIfEmpty that follows it puts the model in
\* single-flyout mode: `selected` is a new, empty flyout placeholder.
C3_DeleteLastThenDefaultGivesFlyout ==
  /\ (lastOp.op = "delete" /\ lastOp.tag = "last") => Len(toolboxList) = 0
  /\ (lastOp.op = "createDefault" /\ lastOp.tag = "afterLast") =>
       /\ Len(toolboxList) = 0
       /\ selected /= NullRef
       /\ selected = flyout
       /\ heap[selected].type = TYPE_FLYOUT
       /\ heap[selected].xml = EmptyXml
       /\ heap[selected].name = Null

C3_Witness ==
  /\ lastOp.op = "createDefault" /\ lastOp.tag = "afterLast"
  /\ numRemoves >= 1
  /\ selected = flyout

\* The step appended one new category named `name`, with empty content, to
\* the end of the list and returned its id; the other entries kept their
\* places.
AppendedCategory(name) ==
  /\ Len(toolboxList') = Len(toolboxList) + 1
  /\ \A i \in 1..Len(toolboxList) : toolboxList'[i] = toolboxList[i]
  /\ LET new == heap'[toolboxList'[Len(toolboxList')]]
     IN /\ new.type = TYPE_CATEGORY
        /\ new.name = name
        /\ new.xml = EmptyXml
        /\ new.id = lastOp'.ret
  /\ lastOp'.err = Null

\* C5 (as claimed): adding a category under a name in use fails with
\* DuplicateName and leaves the list unchanged; under an unused name it
\* appends a new, empty category and returns its id.
C5_DuplicateNameRejected ==
  [][ \A name \in Names :
        AddCategoryToList(name) =>
          IF hasCategoryByName(This, name)
          THEN toolboxList' = toolboxList /\ lastOp'.err = "DuplicateName"
          ELSE AppendedCategory(name) ]_vars

\* C5 (amended): addCategoryToList checks nothing: under every name, used or
\* not, it appends a new, empty category and returns its id.
C5_AddAlwaysAppends ==
  [][ \A name \in Names : AddCategoryToList(name) => AppendedCategory(name) ]_vars

C5_Witness ==
  /\ lastOp.op = "addCategory" /\ lastOp.tag = "used"
  /\ \E i, j \in 1..Len(toolboxList) :
       i /= j /\ heap[toolboxList[i]].name = heap[toolboxList[j]].name
              /\ heap[toolboxList[i]].name = "Logic"

\* C6: a move with newIndex or oldIndex outside 0..length-1 fails with the
\* index-out-of-bounds error and leaves the list (order and contents) and the
\* custom-tag flags unchanged.
C6_MoveOutOfBoundsFails ==
  [][ (lastOp'.op = "move" /\ lastOp'.tag = "outOfBounds") =>
        /\ lastOp'.err = "IndexOutOfBounds"
        /\ toolboxList' = toolboxList
        /\ heap' = heap
        /\ hasVariableCategory' = hasVariableCategory
        /\ hasProcedureCategory' = hasProcedureCategory ]_vars

C6_Witness ==
  /\ lastOp.op = "move" /\ lastOp.err = "IndexOutOfBounds"
  /\ Len(toolboxList) >= 2
  /\ hasVariableCategory

\* C7: moving the selected entry by offset -1 or +1 exchanges it with the
\* entry at currentIndex + offset when that index is in bounds, every other
\* entry keeping its position; when it is out of bounds the order is
\* unchanged.
C7_MoveByOneSwaps ==
  [][ \A cur \in 0..(Len(toolboxList) - 1), offset \in {-1, 1} :
        (toolboxList[cur + 1] = selected
         /\ MoveElementToIndex(selected, cur + offset, cur)) =>
          IF InBounds(cur + offset)
          THEN /\ Len(toolboxList') = Len(toolboxList)
               /\ toolboxList'[cur + offset + 1] = toolboxList[cur + 1]
               /\ toolboxList'[cur + 1] = toolboxList[cur + offset + 1]
               /\ \A k \in 1..Len(toolboxList) :
                    k \notin {cur + 1, cur + offset + 1} => toolboxList'[k] = toolboxList[k]
               /\ \A k \in 1..Len(toolboxList) :
                    heap'[toolboxList[k]].name = heap[toolboxList[k]].name
          ELSE toolboxList' = toolboxList ]_vars

C7_Witness ==
  /\ lastOp.op = "move" /\ lastOp.tag = "selectedByOne" /\ lastOp.err = Null
  /\ Len(toolboxList) = 3
  /\ heap[toolboxList[1]].name = "Loops"
  /\ heap[toolboxList[2]].name = "Logic"
  /\ selected = toolboxList[1]

\* C8: selection is by identity: after an in-bounds move of any entry,
\* getSelected() returns the same entry (same id, name and content) as before.
C8_SelectionSurvivesMove ==
  [][ (lastOp'.op = "move" /\ lastOp'.err = Null) =>
        /\ getSelected(This') = getSelected(This)
        /\ getSelected(This) /= NullRef =>
             /\ heap'[getSelected(This')].id = heap[getSelected(This)].id
             /\ heap'[getSelected(This')].name = heap[getSelected(This)].name
             /\ heap'[getSelected(This')].xml = heap[getSelected(This)].xml ]_vars

C8_Witness ==
  /\ lastOp.op = "move" /\ lastOp.tag = "" /\ lastOp.err = Null
  /\ Len(toolboxList) = 3
  /\ selected = toolboxList[3]
  /\ heap[selected].type = TYPE_CATEGORY

\* ===================================================================
\* Properties of the controller over the map-based model
\* ===================================================================

\* C4: in every reachable state there is at most one category per name: no
\* sequence of add-category and changeName operations, prompt loops
\* included, puts the same name twice in the category list.
C4_OneCategoryPerName ==
  \A i, j \in 1..Len(categoryList) : i /= j => categoryList[i] /= categoryList[j]

\* C9 (as claimed): every switchCategory call made with a non-null current
\* selection stores the blocks on the surface for the category left, before
\* the surface is cleared and loaded with the target's saved content.
C9_EverySwitchCaptures ==
  (lastSwitch.called /\ ~IsNullish(lastSwitch.from)) =>
     (lastSwitch.stored /\ lastSwitch.loaded)

\* C9 (amended): a switchCategory call stores the blocks on the surface for
\* the category left exactly when the current selection and the target id
\* are both non-null; with a null target or no current selection it stores
\* nothing. In every case the surface then holds no blocks but those saved
\* for the target (none for a null target).
C9_SwitchCapturesUnlessTargetNull ==
  lastSwitch.called =>
     /\ (~IsNullish(lastSwitch.from) /\ ~IsNullish(lastSwitch.to)) => lastSwitch.stored
     /\ (IsNullish(lastSwitch.from) \/ IsNullish(lastSwitch.to)) => lastSwitch.untouched
     /\ lastSwitch.loaded
     /\ selectedId = (IF IsNullish(lastSwitch.to) THEN NullRef ELSE lastSwitch.to)

C9_Witness ==
  /\ lastSwitch.called
  /\ lastOp.op = "controller.switchCategory"
  /\ ~IsNullish(lastSwitch.from) /\ ~IsNullish(lastSwitch.to)
  /\ lastSwitch.from /= lastSwitch.to
  /\ lastSwitch.from \in DOMAIN xmlMap
  /\ xmlMap[lastSwitch.from] /= EmptyXml
  /\ toolboxWorkspace /= << >>
  /\ domToWorkspace(xmlMap[lastSwitch.from], << >>) /= toolboxWorkspace

\* C10: content survives switching. Over add-category, edit and switch
\* operations, the content saved for each category other than the selected
\* one is what the surface showed when that category was last left, and
\* right after a switch back to a category the surface shows exactly what
\* it showed when the category was last left.
C10_ContentSurvivesSwitching ==
  /\ leftWith /= NotKept
  /\ \A id \in DOMAIN leftWith :
       id /= selectedId =>
         /\ id \in DOMAIN xmlMap
         /\ domToWorkspace(xmlMap[id], << >>) = leftWith[id]
  /\ (lastSwitch.called /\ selectedId \in DOMAIN leftWith) =>
        toolboxWorkspace = leftWith[selectedId]

C10_Witness ==
  /\ lastSwitch.called
  /\ lastOp.op = "controller.switchCategory"
  /\ selectedId \in DOMAIN leftWith
  /\ leftWith[selectedId] /= << >>
  /\ toolboxWorkspace = leftWith[selectedId]
  /\ lastSwitch.from /= selectedId
  /\ lastSwitch.from \in DOMAIN leftWith
  /\ leftWith[lastSwitch.from] /= << >>
  /\ leftWith[lastSwitch.from] /= leftWith[selectedId]

\* C18 (as claimed): when the selected category is removed, the category selected next is
\* the one immediately before the removed position if there is one, else the
\* one immediately after it, else none (null); it is never the removed one.
C18_NextSelectionAfterRemoval ==
  [][(/\ lastOp'.op = "controller.removeCategory"
      /\ lastOp'.tag = "selected") =>
       LET n == Len(categoryList)
           listed == \E k \in 1..n : getId(Globals, categoryList[k]) = selectedId
           i == IF listed
                THEN CHOOSE k \in 1..n : getId(Globals, categoryList[k]) = selectedId
                ELSE 0
           expected == IF i > 1 THEN getId(Globals, categoryList[i - 1])
                       ELSE IF i = 1 /\ i < n THEN getId(Globals, categoryList[i + 1])
                       ELSE NullRef
       IN /\ lastOp'.err = Null
          /\ selectedId' = expected
          /\ selectedId' /= selectedId
          /\ selectedId' = NullRef => categoryList' = << >>
          /\ selectedId' /= NullRef =>
                \E k \in 1..Len(categoryList') :
                   getId([Globals EXCEPT !.idMap = idMap'], categoryList'[k]) = selectedId'
     ]_vars

\* C19: after add-category with a fresh non-empty name the new category is
\* the last of the list and the selected one, the blocks of the category
\* selected before (if any) have been stored for it, and the surface shows
\* the new category's content, which is empty.
C19_AddSelectsNewLastEntry ==
  (lastOp.op = "controller.addCategory" /\ lastOp.tag = "added") =>
     /\ lastOp.err = Null
     /\ categoryList /= << >>
     /\ getId(Globals, categoryList[Len(categoryList)]) = selectedId
     /\ lastSwitch.called /\ lastSwitch.to = selectedId
     /\ ~IsNullish(lastSwitch.from) => lastSwitch.stored
     /\ xmlMap[selectedId] = EmptyXml
     /\ toolboxWorkspace = << >>

C19_Witness ==
  /\ lastOp.op = "controller.addCategory" /\ lastOp.tag = "added"
  /\ Len(categoryList) = 2
  /\ getId(Globals, categoryList[2]) = selectedId
  /\ ~IsNullish(lastSwitch.from) /\ lastSwitch.stored
  /\ xmlMap[lastSwitch.from] /= EmptyXml
  /\ toolboxWorkspace = << >>

\* Whether hasVariables() agrees with the list: true exactly when an element
\* of the list carries the custom tag 'VARIABLE'.
VariableFlagMatches(m) ==
  hasVariables(m) <=>
    \E i \in 1..Len(m.toolboxList) : m.heap[m.toolboxList[i]].custom = "VARIABLE"

\* C20 (as claimed, for moves): hasVariables() is true exactly when an
\* element of the list carries the custom tag 'VARIABLE'; a successful move
\* of an element keeps it so.
C20_MoveKeepsVariableFlag ==
  [][(lastOp'.op = "move" /\ lastOp'.err = Null /\ VariableFlagMatches(This)) =>
       VariableFlagMatches(This')]_vars

\* -------------------------------------------------------------------
\* Properties of the generators
\* -------------------------------------------------------------------

\* C11 (as claimed): a run of generateConfigXml leaves the editing surface
\* with the blocks it held before the run, and leaves the selection as it
\* was, whichever contents the run loaded onto the surface in between.
C11_GenerateLeavesSurface ==
  [][lastOp'.op = "generator.generateConfigXml" =>
       /\ toolboxWorkspace' = toolboxWorkspace
       /\ selectedId' = selectedId]_vars

\* The same for the generators over the list-based model, when the run
\* returns a document.
GenerateLeavesSurfaceList ==
  [][(lastOp'.op \in {"generateConfigXml", "generateConfigXml.hidden"} /\ lastOp'.err = Null) =>
       /\ toolboxWorkspace' = toolboxWorkspace
       /\ selected' = selected]_vars

\* The generator returned a document.
Generated ==
  /\ lastOp.op \in {"generateConfigXml", "generateConfigXml.hidden"}
  /\ lastOp.err = Null

\* The nodes of the document generated for the blocks of the editing
\* surface: the document's children without elements, the children of the
\* selected category's element otherwise.
SurfaceNodes ==
  IF lastOp.tag = "flyout" THEN xmlDom
  ELSE LET p == getIndexByElementId(This, heap[selected].id)
       IN IF p >= 0 /\ heap[selected].type = TYPE_CATEGORY THEN xmlDom[p + 1].kids ELSE << >>

\* Node by node and block by block: the node of a block whose id is among
\* the shadow block ids is a shadow node, and the block is no real shadow.
RECURSIVE ShadowsGenerated(_, _)
ShadowsGenerated(nodes, blocks) ==
  /\ Len(nodes) = Len(blocks)
  /\ \A i \in 1..Len(blocks) :
        /\ isShadowBlock(shadowBlocks, blocks[i].id) =>
              (nodes[i].tag = "shadow" /\ ~blocks[i].shadow)
        /\ ShadowsGenerated(nodes[i].kids, blocks[i].kids)

\* C12: right after the generator returned a document, the node generated
\* for each block of the editing surface whose id is among the model's
\* shadow block ids is a shadow node, while the block itself, on the surface
\* after the run, is not a real shadow block; with and without elements.
C12_ShadowInOutputOnly ==
  (Generated /\ (lastOp.tag = "category" => heap[selected].type = TYPE_CATEGORY)) =>
     ShadowsGenerated(SurfaceNodes, toolboxWorkspace)

\* A document was generated in category mode while a user-made shadow block
\* was nested in a block of the surface.
C12_Witness ==
  /\ Generated
  /\ lastOp.tag = "category"
  /\ heap[selected].type = TYPE_CATEGORY
  /\ \E i \in 1..Len(toolboxWorkspace) :
        /\ toolboxWorkspace[i].kids /= << >>
        /\ isShadowBlock(shadowBlocks, toolboxWorkspace[i].kids[1].id)
        /\ toolboxWorkspace[i].kids[1].colour = "#000000"

\* No block or shadow node among `nodes` or below them has an id attribute.
RECURSIVE BlockNodesWithoutId(_)
BlockNodesWithoutId(nodes) ==
  \A i \in 1..Len(nodes) :
     /\ nodes[i].tag \in {"block", "shadow"} => nodes[i].id = NullRef
     /\ BlockNodesWithoutId(nodes[i].kids)

\* C13 (as claimed): no block node of a generated document carries an id
\* attribute, be it the node of a top-level block of a category or of the
\* flyout, or the node of a block nested in a top-level block.
C13_NoIdInOutput == Generated => BlockNodesWithoutId(xmlDom)

\* The nodes are the nodes of the given blocks (or block nodes): as many, of
\* the same types, with the same blocks nested.
RECURSIVE NodesOf(_, _)
NodesOf(nodes, blocks) ==
  /\ Len(nodes) = Len(blocks)
  /\ \A i \in 1..Len(blocks) :
        /\ nodes[i].tag \in {"block", "shadow"}
        /\ nodes[i].type = blocks[i].type
        /\ NodesOf(nodes[i].kids, blocks[i].kids)

C15_GenerateTwiceSame ==
  [][(Generated /\ lastOp'.op = lastOp.op) =>
       /\ lastOp'.err = Null
       /\ xmlDom' = xmlDom
       /\ This' = This
       /\ shadowBlocks' = shadowBlocks
       /\ toolboxWorkspace' = toolboxWorkspace]_vars

\* A document was generated, in category mode, from a surface with a
\* user-made shadow block nested in a block, and from a category saved
\* earlier with a block; a further run from this state returns the same
\* document.
C15_Witness ==
  /\ Generated
  /\ lastOp.op = "generateConfigXml"
  /\ lastOp.tag = "category"
  /\ \E k \in 1..Len(toolboxList) :
        toolboxList[k] /= selected /\ heap[toolboxList[k]].xml /= << >>
  /\ \E i \in 1..Len(toolboxWorkspace) :
        /\ toolboxWorkspace[i].kids /= << >>
        /\ isShadowBlock(shadowBlocks, toolboxWorkspace[i].kids[1].id)
  /\ generateConfigXml(Gen).xmlDom = xmlDom

\* C16: a run of generateConfigXml on a model that has elements while no
\* element is selected ends with an error, and has changed neither the
\* model nor the editing surface (nor the hidden workspace).
C16_ErrorWhenNothingSelected ==
  [][(/\ lastOp'.op \in {"generateConfigXml", "generateConfigXml.hidden"}
      /\ toolboxList /= << >>
      /\ selected = NullRef) =>
       /\ lastOp'.err = "Error"
       /\ This' = This
       /\ shadowBlocks' = shadowBlocks
       /\ toolboxWorkspace' = toolboxWorkspace
       /\ hiddenWorkspace' = hiddenWorkspace]_vars

\* The generator ended with the error on a model with elements, none
\* selected, while a block with a nested block was on the surface.
C16_Witness ==
  /\ lastOp.op = "generateConfigXml"
  /\ lastOp.err = "Error"
  /\ toolboxList /= << >>
  /\ selected = NullRef
  /\ toolboxWorkspace /= << >>
  /\ toolboxWorkspace[1].kids /= << >>

\* -------------------------------------------------------------------
\* Properties of the preview update
\* -------------------------------------------------------------------

C21_HasProceduresTellsTag ==
  JsTruthy(hasProcedures(This)) <=>
    \E i \in 1..Len(toolboxList) : heap[toolboxList[i]].custom = "PROCEDURE"

\* C22 (as claimed): the shadow block ids behave as a set: after
\* addShadowBlock(b) isShadowBlock(b) is true, after removeShadowBlock(b) it
\* is false however often b was added before, and neither call changes
\* isShadowBlock for another id.
C22_ShadowIdsAreASet ==
  [][lastOp'.op \in {"addShadowBlock", "removeShadowBlock"} =>
       \A b \in 1..MaxShadowId :
          isShadowBlock(shadowBlocks', b) <=>
            IF b = lastOp'.ret THEN lastOp'.op = "addShadowBlock"
            ELSE isShadowBlock(shadowBlocks, b)]_vars

\* A category of the list has the template's name, or carries the template's
\* exclusive custom tag.
Clashes(t) ==
  \E i \in 1..Len(toolboxList) :
     LET element == heap[toolboxList[i]]
     IN /\ element.type = TYPE_CATEGORY
        /\ \/ element.name = t.name
           \/ t.custom \in {"VARIABLE", "PROCEDURE"} /\ element.custom = t.custom

\* The step appended a copy of t, with the id returned, to the list.
AppendedCopy(t) ==
  /\ Len(toolboxList') = Len(toolboxList) + 1
  /\ \A i \in 1..Len(toolboxList) : toolboxList'[i] = toolboxList[i]
  /\ LET new == heap'[toolboxList'[Len(toolboxList')]]
     IN /\ new.name = t.name
        /\ new.custom = t.custom
        /\ new.id = lastOp'.ret
  /\ lastOp'.err = Null

Originals == {heap[a] : a \in Range(toolboxList)} \cup StandardCategories

\* C24: the copy of an element has the type, name, content, colour and
\* custom tag of the original and an id that differs from the original's
\* and from the id of every element of the list; the elements of the list,
\* the original among them, are as they were.
C24_CopyEqualsOriginalButId ==
  [][ \A original \in Originals :
        AddCopy(original) =>
          LET new == heap'[toolboxList'[Len(toolboxList')]]
          IN /\ new = [original EXCEPT !.id = new.id]
             /\ new.id = lastOp'.ret
             /\ new.id /= original.id
             /\ \A i \in 1..Len(toolboxList) :
                   /\ heap[toolboxList[i]].id /= new.id
                   /\ heap'[toolboxList[i]] = heap[toolboxList[i]] ]_vars

\* An element of the list that has a colour and blocks was copied: the list
\* ends with the original and its copy.
C24_Witness ==
  /\ lastOp.op = "copy"
  /\ Len(toolboxList) = 2
  /\ heap[toolboxList[1]].xml /= EmptyXml
  /\ heap[toolboxList[1]].color /= Null
  /\ heap[toolboxList[2]] = [heap[toolboxList[1]] EXCEPT !.id = lastOp.ret]
  /\ heap[toolboxList[1]].id /= lastOp.ret

\* C25: the id of a category never changes: a name that is a key of the id
\* map before and after a step of the map-based editor (a move among them)
\* has the same id after the step as before.
C25_IdNeverChanges ==
  [][ \A i \in 1..Len(idMap) : \A j \in 1..Len(idMap') :
        idMap[i].name = idMap'[j].name => idMap[i].id = idMap'[j].id ]_vars

\* The ids no element of the list has.
AbsentIds == {id \in 1..MaxCopyUid :
               \A i \in 1..Len(toolboxList) : heap[toolboxList[i]].id /= id}

\* C26: deleting the element with an id that no element of the list has,
\* deleteElementFromList(getIndexByElementId(id)), is not an error and leaves
\* the list, its elements, the selection and the custom-tag flags unchanged.
C26_DeleteAbsentIdIsNoOp ==
  [][ \A id \in AbsentIds :
        DeleteElementFromList(getIndexByElementId(This, id)) =>
          /\ lastOp'.err = Null
          /\ toolboxList' = toolboxList
          /\ heap' = heap
          /\ selected' = selected
          /\ flyout' = flyout
          /\ hasVariableCategory' = hasVariableCategory
          /\ hasProcedureCategory' = hasProcedureCategory ]_vars

\* A delete found nothing to delete in a list that has a selected element
\* and a category of variables.
C26_Witness ==
  /\ lastOp.op = "delete" /\ lastOp.tag = "none"
  /\ Len(toolboxList) = 2
  /\ selected = toolboxList[1]
  /\ hasVariableCategory
  /\ AbsentIds /= {}

\* C27: saving the editing surface into the selected element gives a
\* selected category or flyout element the surface's blocks as its xml and
\* leaves a selected separator as it was; every other element, the list and
\* the selection are unchanged.
C27_SaveChangesSelectedCategoryOnly ==
  [][ lastOp'.op = "saveFromWorkspace" =>
        /\ toolboxList' = toolboxList
        /\ selected' = selected
        /\ flyout' = flyout
        /\ \A a \in DOMAIN heap : a /= selected => heap'[a] = heap[a]
        /\ heap'[selected] =
             IF heap[selected].type = TYPE_SEPARATOR THEN heap[selected]
             ELSE [heap[selected] EXCEPT !.xml = workspaceToDom(toolboxWorkspace)] ]_vars

\* The surface, not empty, was saved while a separator was selected, in a
\* list that has a category with saved blocks.
C27_Witness ==
  /\ lastOp.op = "saveFromWorkspace"
  /\ heap[selected].type = TYPE_SEPARATOR
  /\ toolboxWorkspace /= << >>
  /\ heap[selected].xml = EmptyXml
  /\ \E a \in Range(toolboxList) :
        heap[a].type = TYPE_CATEGORY /\ heap[a].xml /= EmptyXml /\ heap[a].custom = Null

\* C28: in every reachable state every separator element and every flyout
\* element has name null, colour null and custom tag null, whatever
\* changeName and changeColor calls were made on it.
C28_NonCategoryHasNoNameColorTag ==
  \A a \in DOMAIN heap :
    heap[a].type /= TYPE_CATEGORY =>
      /\ heap[a].name = Null
      /\ heap[a].color = Null
      /\ heap[a].custom = Null

\* changeName was called on a separator of a list in which a category has
\* been renamed and coloured.
C28_Witness ==
  /\ lastOp.op = "changeName"
  /\ lastOp.tag = TYPE_SEPARATOR
  /\ \E a \in Range(toolboxList) : heap[a].type = TYPE_SEPARATOR
  /\ \E a \in Range(toolboxList) :
        /\ heap[a].type = TYPE_CATEGORY
        /\ heap[a].name = "Loops"
        /\ heap[a].color \in Colors

\* The block types of the nodes of a document, nested nodes included.
RECURSIVE TypesIn(_)
TypesIn(xml) ==
  IF xml = << >> THEN {}
  ELSE {Head(xml).type} \cup TypesIn(ChildNodes(Head(xml))) \cup TypesIn(Tail(xml))

\* The block types in use: those of the flyout element's xml when the model
\* has a single flyout, those of every category's xml otherwise, and those
\* of the xml to pre-load.
UsedBlockTypes ==
  (IF flyout /= NullRef THEN TypesIn(heap[flyout].xml)
   ELSE UNION {TypesIn(heap[a].xml) :
                 a \in {b \in Range(toolboxList) : heap[b].type = TYPE_CATEGORY}})
  \cup TypesIn(preloadXml)

\* C29: getAllUsedBlockTypes() returns an array without duplicates whose
\* elements are exactly the block types in use.
C29_UsedBlockTypesExact ==
  lastOp.op = "getAllUsedBlockTypes" =>
    /\ lastOp.err = Null
    /\ \A i, j \in 1..Len(blockTypeList) : blockTypeList[i] = blockTypeList[j] => i = j
    /\ Range(blockTypeList) = UsedBlockTypes

\* C30: when the user cancels the name prompt of addCategory, changeName or
\* removeCategory, the handler changes nothing: the categories, their ids
\* and saved xml, the selected id, the tabs and the editing surface are as
\* they were.
C30_CancelledPromptChangesNothing ==
  [][ (/\ lastOp'.op \in {"controller.addCategory", "controller.changeName",
                          "controller.removeCategory"}
       /\ lastOp'.tag = "cancelled") =>
        /\ categoryList' = categoryList
        /\ idMap' = idMap
        /\ xmlMap' = xmlMap
        /\ selectedId' = selectedId
        /\ toolboxWorkspace' = toolboxWorkspace
        /\ tabMap' = tabMap
        /\ table' = table
        /\ cells' = cells
        /\ lastOp'.err = Null ]_vars

\* The prompt of addCategory was cancelled while a category is selected,
\* blocks are on the surface and two categories exist.
C30_Witness ==
  /\ lastOp.op = "controller.addCategory"
  /\ lastOp.tag = "cancelled"
  /\ Len(categoryList) = 2
  /\ ~IsNullish(selectedId)
  /\ toolboxWorkspace /= << >>

\* C31: every transition of the controller (add, switch, remove, move of a
\* category) ends with the preview regenerated from the model as the
\* transition left it: when the handler has returned, the preview
\* workspace shows the tree the generator gives for the new state.
C31_HandlersUpdatePreview ==
  [][ (/\ lastOp'.op \in {"controller.addCategory", "controller.switchCategory",
                          "controller.removeCategory", "controller.moveCategory"}
       /\ lastOp'.tag /= "cancelled"
       /\ lastOp'.err = Null) =>
        previewWorkspace'.shown = generateConfigXmlMap(Globals').xmlDom ]_vars

\* The name of the selected category, and its index in the category list.
SelectedName == CHOOSE n \in Range(categoryList) : getId(Globals, n) = selectedId
SelectedIndex == CHOOSE i \in 1..Len(categoryList) : categoryList[i] = SelectedName

\* The index the key moves the selected category to.
SwapIndex(key) == SelectedIndex + (IF key = "ArrowUp" THEN -1 ELSE 1)

\* C32: in the map-based model, moving the selected category up or down
\* keeps name and xml together: afterwards the moved name has the content
\* that was on the editing surface, the name it was swapped with has the xml
\* it had, the two names have exchanged their places in the category list,
\* the selected id belongs to the moved name as before, and the editing
\* surface shows that category's content.
C32_MoveKeepsNameAndXml ==
  [][ \A key \in {"ArrowUp", "ArrowDown"} :
        (/\ lastOp'.op = "controller.moveCategory"
         /\ lastOp'.tag = key
         /\ ~IsNullish(selectedId)
         /\ SwapIndex(key) \in 1..Len(categoryList)) =>
          LET curr == SelectedName
              swap == categoryList[SwapIndex(key)]
          IN /\ lastOp'.err = Null
             /\ getXmlByName(Globals', curr) = workspaceToDom(toolboxWorkspace)
             /\ getXmlByName(Globals', swap) = getXmlByName(Globals, swap)
             /\ categoryList' = [categoryList EXCEPT ![SelectedIndex] = swap,
                                                     ![SwapIndex(key)] = curr]
             /\ getId(Globals', curr) = selectedId'
             /\ TextOf(Globals', tabMap'[selectedId']) = curr
             /\ workspaceToDom(toolboxWorkspace') = workspaceToDom(toolboxWorkspace) ]_vars

\* A category with a block on the surface has been moved up past a category
\* whose stored xml is different.
C32_Witness ==
  /\ lastOp.op = "controller.moveCategory"
  /\ lastOp.tag = "ArrowUp"
  /\ lastOp.err = Null
  /\ Len(categoryList) = 2
  /\ getId(Globals, categoryList[1]) = selectedId
  /\ toolboxWorkspace /= << >>
  /\ getXmlByName(Globals, categoryList[2]) /= getXmlByName(Globals, categoryList[1])

\* C33: in the map-based model, changeCategoryName(newName, id) for the id
\* of a category and every newName, the current name of the category
\* included, leaves getId(newName) = id, leaves the old name without an id
\* when it differs from newName, keeps the place of the category in the
\* category list and keeps the xml stored for id.
C33_RenameKeepsIdPositionXml ==
  \A i \in 1..Len(categoryList) : \A newName \in Names :
    LET old == categoryList[i]
        id == getId(Globals, old)
        g == changeCategoryName(Globals, newName, id)
    IN ~IsNullish(id) =>
         /\ getId(g, newName) = id
         /\ old /= newName => ~isCategory(g, old)
         /\ g.categoryList = [categoryList EXCEPT ![i] = newName]
         /\ getXmlById(g, id) = getXmlById(Globals, id)

\* The ids in the range of idMap.
IdsOfNames == {idMap[i].id : i \in 1..Len(idMap)}

\* C34: in the map-based model, after any sequence of add, remove, rename
\* and move operations of the controller the three structures agree: the
\* names in categoryList are pairwise distinct and are exactly the keys of
\* idMap, distinct names have distinct ids, and xmlMap has an entry for
\* exactly the ids in the range of idMap.
C34_StructuresAgree ==
  /\ \A i, j \in 1..Len(categoryList) : i /= j => categoryList[i] /= categoryList[j]
  /\ Range(categoryList) = {idMap[i].name : i \in 1..Len(idMap)}
  /\ \A i, j \in 1..Len(idMap) : i /= j => idMap[i].id /= idMap[j].id
  /\ DOMAIN xmlMap = IdsOfNames

\* C35: the tab map of the view stays in step with the model: after any
\* sequence of add-category and remove-category operations tabMap has an
\* entry for exactly the ids of the categories in the model, the entry of a
\* removed category being deleted on every removal.
C35_TabMapMatchesModel == DOMAIN tabMap = IdsOfNames

\* The rows of the tab table carry the tabs of the entries of the model, in
\* the order of the entries.
TabsMatchEntries(rows, list, objects) ==
  rows = [i \in 1..Len(list) |-> objects[list[i]].id]

\* C36: from a tab table whose rows are in the order of the entries of the
\* model, view.moveTabToIndex(id, newIndex, oldIndex) and
\* model.moveElementToIndex(element, newIndex, oldIndex), oldIndex being the
\* index of the element, leave rows and entries in the same order again,
\* for newIndex below, equal to and above oldIndex; for indices out of
\* bounds both throw, and for no others.
C36_TabsFollowEntries ==
  [][ (/\ lastOp'.op = "moveTabAndElement"
       /\ toolboxList /= << >>
       /\ TabsMatchEntries(table, toolboxList, heap)) =>
        /\ (lastOp'.tag = "threw") <=> (lastOp'.err /= Null)
        /\ TabsMatchEntries(table', toolboxList', heap')
        /\ lastOp'.err /= Null => table' = table /\ toolboxList' = toolboxList ]_vars

\* The last of three entries and its tab have been moved to the front.
C36_Witness ==
  /\ lastOp.op = "moveTabAndElement"
  /\ lastOp.ret = -2
  /\ lastOp.tag = "moved"
  /\ lastOp.err = Null
  /\ Len(toolboxList) = 3
  /\ TabsMatchEntries(table, toolboxList, heap)
  /\ heap[toolboxList[1]].id > heap[toolboxList[2]].id

\* C37 (as claimed): in every reachable state of the list model `flyout` is
\* null exactly when the toolbox list is not empty, and when the list is
\* empty `selected` is the flyout element.
C37_FlyoutNullIffNonEmpty ==
  /\ (flyout = NullRef) <=> (toolboxList /= << >>)
  /\ toolboxList = << >> => selected = flyout

\* C37 (amended): `flyout` is null whenever the toolbox list is not empty.
\* An empty list has a flyout element that is also `selected` right after
\* the constructor and right after createDefaultSelectedIfEmpty; after
\* deleteElementFromList deleted the last element the list is empty and
\* `flyout` is still null.
C37_FlyoutNullWhenNonEmpty ==
  /\ toolboxList /= << >> => flyout = NullRef
  /\ (lastOp.op \in {"init", "createDefault"} /\ toolboxList = << >>) =>
       /\ flyout /= NullRef
       /\ selected = flyout
       /\ heap[flyout].type = TYPE_FLYOUT
  /\ (lastOp.op = "delete" /\ lastOp.tag = "last") =>
       toolboxList = << >> /\ flyout = NullRef

\* An element has been added to a list that was emptied and given a new
\* flyout element before.
C37_Witness ==
  /\ lastOp.op = "addCategory"
  /\ Len(toolboxList) = 1
  /\ flyout = NullRef
  /\ numRemoves >= 1
  /\ uidCount >= 3

\* C38: updatePreview reinjects the preview workspace exactly when the tree
\* generated is of the other mode than the current preview workspace (from
\* no categories to categories or back); otherwise it only fills the flyout
\* or the toolbox the preview workspace has. This holds for every
\* updatePreview of a sequence, those after an earlier reinjection included;
\* in each case the preview then shows the tree in the mode of the tree.
C38_ReinjectIffModeSwitch ==
  [][ (/\ lastOp'.op = "controller.updatePreview"
       /\ ~generateConfigXmlMap(Globals).g.threw) =>
        LET tree == generateConfigXmlMap(Globals).xmlDom
            switches == previewWorkspace.toolbox_ /= ~NoCategories(tree)
        IN /\ lastOp'.err = Null
           /\ (lastOp'.tag = "reinject") <=> switches
           /\ ~switches => lastOp'.tag = (IF NoCategories(tree) THEN "show" ELSE "populate")
           /\ previewWorkspace' = [toolbox_ |-> ~NoCategories(tree), shown |-> tree] ]_vars

\* The entries of the list with the selected one moved by `offset` when it
\* has a neighbour there.
MovedBy(offset) ==
  LET cur == FirstIndex(toolboxList, LAMBDA a : a = selected)
      swap == cur + offset
  IN IF cur = -1 \/ swap < 0 \/ swap >= Len(toolboxList) THEN toolboxList
     ELSE [toolboxList EXCEPT ![cur + 1] = toolboxList[swap + 1],
                              ![swap + 1] = toolboxList[cur + 1]]

\* C39: an arrow-up or arrow-down key press moves the selected toolbox
\* entry only while the Workspace Factory tab is the selected tab of the
\* application; while the Block Factory or the Exporter tab is selected a
\* key press leaves the order of the entries unchanged.
C39_ArrowKeysOnlyInWorkspaceFactory ==
  [][ lastOp'.op = "keydown" =>
        IF selectedTab = "WORKSPACE_FACTORY"
        THEN toolboxList' = MovedBy(IF lastOp'.ret = 38 THEN -1
                                    ELSE IF lastOp'.ret = 40 THEN 1 ELSE 0)
        ELSE toolboxList' = toolboxList ]_vars
====
